---- MODULE Spec2Model ----
(***************************************************************************)
(* Climatology aggregation and record tracking of weather-wiki-export.     *)
(*                                                                         *)
(* Encoding of the TypeScript values:                                      *)
(*   number | null      <<>> is null/undefined, <<n>> is the number n.     *)
(*                      Numbers are integers counted in thousandths        *)
(*                      (30000 is 30.000); round2 produces multiples of 10.*)
(*   ISO date string    <<y, m, d>> for "YYYY-MM-DD"; the day or the month *)
(*                      may be out of the calendar ("2020-02-30").         *)
(*   "Do MMM YYYY"      <<d, m, y>>  ("4th Jan 2001" is <<4, 1, 2001>>).   *)
(*   bare year "2001"   <<2001>>.                                          *)
(*   "Invalid date"     <<0, 0>>, what moment formats an invalid date to.  *)
(*   null date          <<>>.                                              *)
(***************************************************************************)
EXTENDS Integers, Sequences, FiniteSets, TLC

VARIABLES
    mExisting,      \* Record Merger: the persisted pair handed to the merger
    mIncoming,      \* Record Merger: the incoming candidate pair
    mOut,           \* Record Merger: result of merge(existing, incoming)
    mOut2,          \* Record Merger: result of merge(mOut, incoming)
    mPc,            \* Record Merger: "init", "max", "min", "max2", "min2"
    aRows,          \* the daily rows (OpenMeteoRow[]) handed to the core
    aBuilt,         \* Monthly Aggregator: rows returned by buildMonthlyAggregates
    aRecords,       \* Record Tracker: per month, the records picked from aRows
    aBuckets,       \* Record Tracker: what accumulateMonthlyDailyRecords returned
    aFed,           \* Record Tracker: the sizes of the batches fed so far
    aPc,            \* which of the two core calls have been made on aRows
    climoMaster,    \* sheet "Climatology Master", rows 4..15 (one per month)
    monthlyAggSheet,\* sheet "Monthly Aggregates", rows 4.. (appended rows)
    lastRun,        \* what the last POST computed (candidates and merged rows)
    fetchedRows,    \* the daily rows the runs so far have fetched
    runs,           \* number of POST requests served so far
    wArgs,          \* buildWindows: its arguments
    wStart,         \* buildWindows: baseStartYear + k * stepYears of the loop
    wTick,          \* buildWindows: parity of the loop counter k
    wOut,           \* buildWindows: the array out
    wPc,            \* buildWindows: "call", "loop", "done"
    cInput,         \* window builders: the persisted monthly aggregates
    cWindow,        \* window builders: (startYear, endYear)
    cWin,           \* what computeWindowClimo returned
    cAgg,           \* what computeClimatologyFromMonthlyAggregates returned
    cPc,            \* which of the two builders have been called
    \* functions called on their own: the numeric helpers, the percent
    \* normalizer, the builders of the climatology rows
    nInput,         \* the argument
    nOut,           \* what it returned
    nPc,            \* which function has been called
    \* two runs of the ingestion and of the Climatology Master generation,
    \* step by step against the same spreadsheet
    kAgg,           \* the Monthly Aggregates sheet
    kMaster,        \* the Climatology Master sheet
    kRun,           \* each run's position and what it holds in memory
    kBefore         \* the Climatology Master before the two runs started

vars == <<mExisting, mIncoming, mOut, mOut2, mPc, aRows, aBuilt, aRecords,
          aBuckets, aFed, aPc,
          climoMaster, monthlyAggSheet, lastRun, fetchedRows, runs,
          wArgs, wStart, wTick, wOut, wPc,
          cInput, cWindow, cWin, cAgg, cPc,
          nInput, nOut, nPc,
          kAgg, kMaster, kRun, kBefore>>

mergeVars == <<mExisting, mIncoming, mOut, mOut2, mPc>>
aggVars == <<aRows, aBuilt, aRecords, aBuckets, aFed, aPc>>
runVars == <<climoMaster, monthlyAggSheet, lastRun, fetchedRows, runs>>
winVars == <<wArgs, wStart, wTick, wOut, wPc>>
climoVars == <<cInput, cWindow, cWin, cAgg, cPc>>
numVars == <<nInput, nOut, nPc>>
conVars == <<kAgg, kMaster, kRun, kBefore>>

----------------------------------------------------------------------------
(* Values *)

Null == <<>>

Num(n) == <<n>>

IsNum(x) == Len(x) = 1

NumOf(x) == x[1]

\* A RecordPair [value, date] as the tuple type of climatology.types.ts.
RecordPair(v, d) == [value |-> v, date |-> d]

NullPair == RecordPair(Null, Null)

\* x ?? null
OrNull(x) == IF x = Null THEN Null ELSE x

----------------------------------------------------------------------------
(* Record Merger, climatology.ts *)

\* /^\s*\d{4}\s*$/ on a string: a bare 4-digit year.
looksLikeYearOnly(d) == Len(d) = 1

\* the incoming candidate replaces the record whatever its value
mergeMax_incomingWins(existing, incoming) ==
    IF incoming.value = Null
    THEN RecordPair(OrNull(existing.value), OrNull(existing.date))
    ELSE RecordPair(incoming.value, incoming.date)

\* a run without a candidate wipes the record
mergeMax_dropOnNull(existing, incoming) ==
    IF incoming.value = Null THEN NullPair
    ELSE IF existing.value = Null THEN RecordPair(incoming.value, incoming.date)
    ELSE IF NumOf(incoming.value) > NumOf(existing.value)
         THEN RecordPair(incoming.value, incoming.date)
    ELSE RecordPair(existing.value, existing.date)

\* the winner's value with the loser's date
mergeMax_keepsOldDate(existing, incoming) ==
    IF incoming.value = Null
    THEN RecordPair(OrNull(existing.value), OrNull(existing.date))
    ELSE IF existing.value = Null THEN RecordPair(incoming.value, incoming.date)
    ELSE IF NumOf(incoming.value) > NumOf(existing.value)
         THEN RecordPair(incoming.value, existing.date)
    ELSE IF NumOf(incoming.value) < NumOf(existing.value)
         THEN RecordPair(existing.value, existing.date)
    ELSE IF incoming.date # Null
            /\ (existing.date = Null \/ looksLikeYearOnly(existing.date))
         THEN RecordPair(incoming.value, incoming.date)
    ELSE RecordPair(existing.value, existing.date)

mergeMax(existing, incoming) ==
    LET eVal == existing.value
        eDate == existing.date
        iVal == incoming.value
        iDate == incoming.date
    IN  IF iVal = Null THEN RecordPair(OrNull(eVal), OrNull(eDate))
        ELSE IF eVal = Null THEN RecordPair(iVal, iDate)
        ELSE IF NumOf(iVal) > NumOf(eVal) THEN RecordPair(iVal, iDate)
        ELSE IF NumOf(iVal) < NumOf(eVal) THEN RecordPair(eVal, eDate)
        ELSE IF iDate # Null /\ (eDate = Null \/ looksLikeYearOnly(eDate))
             THEN RecordPair(iVal, iDate)
        ELSE RecordPair(eVal, eDate)

mergeMin(existing, incoming) ==
    LET eVal == existing.value
        eDate == existing.date
        iVal == incoming.value
        iDate == incoming.date
    IN  IF iVal = Null THEN RecordPair(OrNull(eVal), OrNull(eDate))
        ELSE IF eVal = Null THEN RecordPair(iVal, iDate)
        ELSE IF NumOf(iVal) < NumOf(eVal) THEN RecordPair(iVal, iDate)
        ELSE IF NumOf(iVal) > NumOf(eVal) THEN RecordPair(eVal, eDate)
        ELSE IF iDate # Null /\ (eDate = Null \/ looksLikeYearOnly(eDate))
             THEN RecordPair(iVal, iDate)
        ELSE RecordPair(eVal, eDate)

----------------------------------------------------------------------------
(* Record Merger on its own: every existing pair against every candidate *)

MergeVals == {Null, Num(-1000), Num(0), Num(40000), Num(41000)}

MergeDates == {Null, <<2001>>, <<2002>>, <<4, 1, 2001>>, <<5, 1, 2001>>}

MergePairs == {RecordPair(v, d) : v \in MergeVals, d \in MergeDates}

\* mOut and mOut2 before the merger has been called
NotRun == [value |-> <<0, 0>>, date |-> Null]

AggIdle == /\ aRows = <<>>
           /\ aBuilt = <<>>
           /\ aRecords = <<>>
           /\ aBuckets = <<>>
           /\ aFed = <<>>
           /\ aPc = {}

RunIdle == /\ climoMaster = <<>>
           /\ monthlyAggSheet = <<>>
           /\ lastRun = <<>>
           /\ fetchedRows = {}
           /\ runs = 0

ClimoIdle == /\ cInput = <<>>
             /\ cWindow = <<>>
             /\ cWin = <<>>
             /\ cAgg = <<>>
             /\ cPc = {}

NumIdle == /\ nInput = <<>>
           /\ nOut = <<>>
           /\ nPc = "off"

ConIdle == /\ kAgg = <<>>
           /\ kMaster = <<>>
           /\ kRun = <<>>
           /\ kBefore = <<>>

WinIdle == /\ wArgs = <<>>
           /\ wStart = 0
           /\ wTick = 0
           /\ wOut = <<>>
           /\ wPc = "off"

MergeIdle == /\ mExisting = NullPair
             /\ mIncoming = NullPair
             /\ mOut = NotRun
             /\ mOut2 = NotRun
             /\ mPc = "off"

InitMerge ==
    /\ mExisting \in MergePairs
    /\ mIncoming \in MergePairs
    /\ mOut = NotRun
    /\ mOut2 = NotRun
    /\ mPc = "init"
    /\ AggIdle
    /\ RunIdle
    /\ WinIdle
    /\ ClimoIdle
    /\ NumIdle
    /\ ConIdle

CallMergeMax ==
    /\ mPc = "init"
    /\ mOut' = mergeMax(mExisting, mIncoming)
    /\ mPc' = "max"
    /\ UNCHANGED <<mExisting, mIncoming, mOut2, aggVars, runVars, winVars, climoVars, numVars, conVars>>

CallMergeMin ==
    /\ mPc = "init"
    /\ mOut' = mergeMin(mExisting, mIncoming)
    /\ mPc' = "min"
    /\ UNCHANGED <<mExisting, mIncoming, mOut2, aggVars, runVars, winVars, climoVars, numVars, conVars>>

\* The next run hands the same candidate to the merger again.
CallMergeMaxAgain ==
    /\ mPc = "max"
    /\ mOut2' = mergeMax(mOut, mIncoming)
    /\ mPc' = "max2"
    /\ UNCHANGED <<mExisting, mIncoming, mOut, aggVars, runVars, winVars, climoVars, numVars, conVars>>

CallMergeMinAgain ==
    /\ mPc = "min"
    /\ mOut2' = mergeMin(mOut, mIncoming)
    /\ mPc' = "min2"
    /\ UNCHANGED <<mExisting, mIncoming, mOut, aggVars, runVars, winVars, climoVars, numVars, conVars>>

NextMerge ==
    \/ CallMergeMax
    \/ CallMergeMin
    \/ CallMergeMaxAgain
    \/ CallMergeMinAgain

SpecMerge == InitMerge /\ [][NextMerge]_vars

----------------------------------------------------------------------------
(* Claims about the Record Merger *)

MergedMax == mPc \in {"max", "max2"}

MergedMin == mPc \in {"min", "min2"}

\* C1: the merger never regresses: with a non-null existing value, mergeMax
\* returns a value >= the existing one and mergeMin a value <= the existing
\* one, for every incoming pair.
C1_NeverRegresses ==
    /\ (MergedMax /\ mExisting.value # Null) =>
          (mOut.value # Null /\ NumOf(mOut.value) >= NumOf(mExisting.value))
    /\ (MergedMin /\ mExisting.value # Null) =>
          (mOut.value # Null /\ NumOf(mOut.value) <= NumOf(mExisting.value))

C1_Witness ==
    /\ mPc = "max"
    /\ mExisting.value = Num(40000)
    /\ mIncoming.value = Num(-1000)
    /\ mOut.value = Num(40000)

\* C3: the merger is idempotent: merging the same candidate into the merged
\* result again changes neither the value nor the date.
C3_Idempotent ==
    (mPc \in {"max2", "min2"}) => (mOut2 = mOut)

C3_Witness ==
    /\ mPc = "min2"
    /\ mExisting = RecordPair(Num(40000), <<2001>>)
    /\ mIncoming = RecordPair(Num(40000), <<4, 1, 2001>>)
    /\ mOut2 = mIncoming

Worse(kind, e, i) ==
    /\ e.value # Null
    /\ i.value # Null
    /\ IF kind = "max" THEN NumOf(i.value) < NumOf(e.value)
                       ELSE NumOf(i.value) > NumOf(e.value)

\* C4: the existing record comes back unchanged when the incoming value is
\* null, when the incoming pair is the existing pair, and when the incoming
\* value is strictly worse.
C4_KeepsExisting ==
    /\ (MergedMax /\ (mIncoming.value = Null \/ mIncoming = mExisting
                      \/ Worse("max", mExisting, mIncoming)))
          => mOut = mExisting
    /\ (MergedMin /\ (mIncoming.value = Null \/ mIncoming = mExisting
                      \/ Worse("min", mExisting, mIncoming)))
          => mOut = mExisting

C4_Witness ==
    /\ mPc = "min"
    /\ mExisting = RecordPair(Num(-1000), <<4, 1, 2001>>)
    /\ mIncoming = RecordPair(Num(0), <<5, 1, 2001>>)
    /\ mOut = mExisting

IsFullDate(d) == Len(d) = 3

SameValue == /\ mExisting.value # Null
             /\ mIncoming.value = mExisting.value

\* C5: on equal values the incoming date is returned only if the existing
\* date is a bare year and the incoming date is a full date; in every other
\* equal-value case the existing date is kept.
C5_EqualValueDate ==
    ((MergedMax \/ MergedMin) /\ SameValue) =>
        mOut.date = IF looksLikeYearOnly(mExisting.date)
                       /\ IsFullDate(mIncoming.date)
                    THEN mIncoming.date
                    ELSE mExisting.date

----------------------------------------------------------------------------
(* Numeric helpers, computeHelpers.ts *)

\* An unrounded quotient n/d (d > 0) of numbers in thousandths.
Rat(n, d) == [n |-> n, d |-> d]

\* Math.round(x * 100) / 100 with -0 normalised: floor(100 x + 1/2) hundredths.
round2(x) ==
    IF x = Null THEN Null
    ELSE Num(10 * ((2 * x.n + 10 * x.d) \div (20 * x.d)))

\* Number(String(x ?? "").trim()): null becomes "" and Number("") is 0.
toNum(x) == IF x = Null THEN Num(0) ELSE x

RECURSIVE SumSeq(_)
SumSeq(s) == IF s = <<>> THEN 0 ELSE NumOf(Head(s)) + SumSeq(Tail(s))

\* rows.map(f): the cells of one variable, in row order
Column(rows, f) == [k \in 1..Len(rows) |-> rows[k][f]]

NotNull(x) == x # Null

----------------------------------------------------------------------------
(* Dates, dateHelpers.ts and moment *)

MonthNames ==
    <<"January", "February", "March", "April", "May", "June", "July",
      "August", "September", "October", "November", "December">>

\* monthIndexFromName: the index of a month name, 0 when it is none
monthIndexFromName(monthName) ==
    IF \E i \in 1..12 : MonthNames[i] = monthName
    THEN CHOOSE i \in 1..12 : MonthNames[i] = monthName
    ELSE 0

IsLeap(y) == (y % 4 = 0 /\ y % 100 # 0) \/ y % 400 = 0

DaysInMonth(y, m) ==
    IF m = 2 THEN (IF IsLeap(y) THEN 29 ELSE 28)
    ELSE IF m \in {4, 6, 9, 11} THEN 30 ELSE 31

\* moment.tz(iso, "YYYY-MM-DD", true, tz).isValid()
isValidIso(iso) ==
    /\ Len(iso) = 3
    /\ iso[2] \in 1..12
    /\ iso[3] \in 1..DaysInMonth(iso[1], iso[2])

InvalidDateStr == <<0, 0>>

\* format("Do MMM YYYY") of a valid date
PrettyDate(iso) == <<iso[3], iso[2], iso[1]>>

fmtIsoToPrettyDate(iso) == IF isValidIso(iso) THEN PrettyDate(iso) ELSE Null

\* moment(a, "Do MMM YYYY").isBefore(moment(b, "Do MMM YYYY"))
isBefore(a, b) ==
    \/ a[3] < b[3]
    \/ a[3] = b[3] /\ a[2] < b[2]
    \/ a[3] = b[3] /\ a[2] = b[2] /\ a[1] < b[1]

RECURSIVE pickMaxScan(_, _, _, _)
pickMaxScan(rows, f, requirePositive, best) ==
    IF rows = <<>> THEN best
    ELSE LET r == Head(rows)
             n == toNum(r[f])
             cand == fmtIsoToPrettyDate(r.iso)
             next ==
                 IF r.iso = Null THEN best
                 ELSE IF n = Null THEN best
                 ELSE IF requirePositive /\ ~(NumOf(n) > 0) THEN best
                 ELSE IF best.value = Null \/ NumOf(n) > NumOf(best.value)
                      THEN RecordPair(n, cand)
                 ELSE IF n = best.value /\ best.date # Null
                         /\ cand # Null /\ isBefore(cand, best.date)
                      THEN RecordPair(best.value, cand)
                 ELSE best
         IN  pickMaxScan(Tail(rows), f, requirePositive, next)

pickMaxWithDate(rows, f, requirePositive) ==
    pickMaxScan(rows, f, requirePositive, NullPair)

RECURSIVE pickMinScan(_, _, _)
pickMinScan(rows, f, best) ==
    IF rows = <<>> THEN best
    ELSE LET r == Head(rows)
             n == toNum(r[f])
             cand == fmtIsoToPrettyDate(r.iso)
             next ==
                 IF r.iso = Null THEN best
                 ELSE IF n = Null THEN best
                 ELSE IF best.value = Null \/ NumOf(n) < NumOf(best.value)
                      THEN RecordPair(n, cand)
                 ELSE IF n = best.value /\ best.date # Null
                         /\ cand # Null /\ isBefore(cand, best.date)
                      THEN RecordPair(best.value, cand)
                 ELSE best
         IN  pickMinScan(Tail(rows), f, next)

pickMinWithDate(rows, f) == pickMinScan(rows, f, NullPair)

----------------------------------------------------------------------------
(* Monthly Aggregator, sheetsTabHelpers.ts *)

\* THRESHOLDS, in thousandths (RAIN_MM 2.5, SNOW_CM 0.254, PRECIP_MM 0.1).
RAIN_MM == 2500
SNOW_CM == 254
PRECIP_MM == 100

countValidAt(vals, f) ==
    Len(SelectSeq([k \in 1..Len(vals) |-> toNum(vals[k][f])], NotNull))

meanAt(vals, f) ==
    LET nums == SelectSeq([k \in 1..Len(vals) |-> toNum(vals[k][f])], NotNull)
    IN  IF nums = <<>> THEN Null ELSE Rat(SumSeq(nums), Len(nums))

sumAt(vals, f) ==
    LET nums == SelectSeq([k \in 1..Len(vals) |-> toNum(vals[k][f])], NotNull)
    IN  IF nums = <<>> THEN Null ELSE Rat(SumSeq(nums), 1)

\* vals.filter(v => { n = toNum(v[i]); return n != null && n >= t }).length,
\* the threshold t = tNum / tDen thousandths.
daysAtLeast(vals, f, tNum, tDen) ==
    LET Hit(n) == n # Null /\ NumOf(n) * tDen >= tNum
    IN  Len(SelectSeq([k \in 1..Len(vals) |-> toNum(vals[k][f])], Hit))

\* Number(iso.slice(5, 7)) of the row's date cell; a cell that is no date
\* gives NaN or 0.
monthOfRow(r) == IF Len(r.iso) = 3 THEN r.iso[2] ELSE 0

\* The body of the month loop: one MonthlyAggregateRow.
monthlyAggregateRow(year, month, rows) ==
    LET vals == rows
        sunshineSeconds == sumAt(vals, "sunshine")
        daylightSeconds == sumAt(vals, "daylight")
        sunshineHours ==
            IF sunshineSeconds # Null THEN Rat(sunshineSeconds.n, 3600)
            ELSE Null
        possibleSunshineFrac ==
            IF sunshineSeconds # Null /\ daylightSeconds # Null
               /\ daylightSeconds.n > 0
            THEN Rat(1000 * sunshineSeconds.n, daylightSeconds.n)
            ELSE Null
        recHighTmax == pickMaxWithDate(rows, "tmax", FALSE)
        recLowTmin == pickMinWithDate(rows, "tmin")
        recMaxRain == pickMaxWithDate(rows, "rain", TRUE)
        recMaxSnow == pickMaxWithDate(rows, "snowfall", TRUE)
        recMaxPrecip == pickMaxWithDate(rows, "precip", TRUE)
    IN  [year |-> year,
         month |-> MonthNames[month],
         meanTmax |-> round2(meanAt(vals, "tmax")),
         meanTmin |-> round2(meanAt(vals, "tmin")),
         meanTmean |-> round2(meanAt(vals, "tmean")),
         meanDew |-> round2(meanAt(vals, "dew")),
         meanRh |-> round2(meanAt(vals, "rh")),
         totalRainfallMm |-> round2(sumAt(vals, "rain")),
         rainyDays |-> daysAtLeast(vals, "rain", RAIN_MM, 1),
         totalSnowfallCm |-> round2(sumAt(vals, "snowfall")),
         snowyDays |-> daysAtLeast(vals, "snowfall", SNOW_CM, 1),
         totalPrecipMm |-> round2(sumAt(vals, "precip")),
         wetDays |-> daysAtLeast(vals, "precip", PRECIP_MM, 1),
         sunshineHours |-> round2(sunshineHours),
         possibleSunshineFrac |-> round2(possibleSunshineFrac),
         validDays |-> countValidAt(vals, "precip"),
         recHighTmax |-> recHighTmax,
         recLowTmin |-> recLowTmin,
         recMaxRain |-> recMaxRain,
         recMaxSnow |-> recMaxSnow,
         recMaxPrecip |-> recMaxPrecip]

\* buckets.get(month): the rows whose date cell has that month, in order
monthBucket(rawRows, month) ==
    LET InMonth(r) == monthOfRow(r) = month IN SelectSeq(rawRows, InMonth)

RECURSIVE buildMonths(_, _, _)
buildMonths(year, rawRows, month) ==
    IF month > 12 THEN <<>>
    ELSE LET rows == monthBucket(rawRows, month)
         IN  (IF rows = <<>> THEN <<>>
              ELSE <<monthlyAggregateRow(year, month, rows)>>)
             \o buildMonths(year, rawRows, month + 1)

buildMonthlyAggregates(year, rawRows) == buildMonths(year, rawRows, 1)

----------------------------------------------------------------------------
(* Record Tracker, climatologyRecords.ts *)

\* Number(String(x ?? "").trim()): null becomes "" and Number("") is 0.
asFiniteNumber(x) == IF x = Null THEN Num(0) ELSE x

getMonthIdxFromIso(isoDate) == IF isValidIso(isoDate) THEN isoDate[2] ELSE 0

DailyRecordPoint(v, isoDate) == [value |-> v, isoDate |-> isoDate]

EmptyBucket == [tmax |-> <<>>, tmin |-> <<>>, precip |-> <<>>, snow |-> <<>>]

\* acc[monthIdx], created empty when absent
ensureBucket(acc, monthIdx) ==
    IF monthIdx \in DOMAIN acc THEN acc[monthIdx] ELSE EmptyBucket

pushIfFinite(arr, value, isoDate) ==
    IF value = Null THEN arr ELSE Append(arr, DailyRecordPoint(value, isoDate))

\* for (const r of rawRows) on the accumulator
RECURSIVE accumulateRows(_, _)
accumulateRows(rawRows, existing) ==
    IF rawRows = <<>> THEN existing
    ELSE LET r == Head(rawRows)
             isoDate == r.iso
             monthIdx == getMonthIdxFromIso(isoDate)
             bucket == ensureBucket(existing, monthIdx)
             pushed ==
                 [tmax |-> pushIfFinite(bucket.tmax, asFiniteNumber(r.tmax),
                                        isoDate),
                  tmin |-> pushIfFinite(bucket.tmin, asFiniteNumber(r.tmin),
                                        isoDate),
                  precip |-> pushIfFinite(bucket.precip,
                                          asFiniteNumber(r.precip), isoDate),
                  snow |-> pushIfFinite(bucket.snow,
                                        asFiniteNumber(r.snowfall), isoDate)]
             acc == IF isoDate = Null \/ monthIdx = 0 THEN existing
                    ELSE [m \in DOMAIN existing \cup {monthIdx} |->
                            IF m = monthIdx THEN pushed ELSE existing[m]]
         IN  accumulateRows(Tail(rawRows), acc)

accumulateMonthlyDailyRecords_dropExisting(rawRows, existing) ==
    accumulateRows(rawRows, <<>>)

\* const acc = existing ?? {}; then the loop
accumulateMonthlyDailyRecords(rawRows, existing) ==
    accumulateRows(rawRows, existing)

----------------------------------------------------------------------------
(* Record pickers over the tracker's buckets, climatology.ts *)

yearFromIso(isoDate) == isoDate[1]

\* moment formats an invalid date as the string "Invalid date"
fmtRecordDate(isoDate) ==
    IF isValidIso(isoDate) THEN PrettyDate(isoDate) ELSE InvalidDateStr

\* the year filter shared by both pickers; a bound that is null is not applied
inYears(r, startYear, endYear) ==
    /\ startYear = Null \/ yearFromIso(r.isoDate) >= NumOf(startYear)
    /\ endYear = Null \/ yearFromIso(r.isoDate) <= NumOf(endYear)

RECURSIVE pickMaxStrictScan(_, _, _, _, _)
pickMaxStrictScan(recs, startYear, endYear, requirePositive, best) ==
    IF recs = <<>> THEN best
    ELSE LET r == Head(recs)
             next ==
                 IF requirePositive /\ ~(NumOf(r.value) > 0) THEN best
                 ELSE IF ~inYears(r, startYear, endYear) THEN best
                 ELSE IF best = Null \/ NumOf(r.value) > NumOf(best[1].value)
                      THEN <<r>>
                 ELSE best
         IN  pickMaxStrictScan(Tail(recs), startYear, endYear,
                               requirePositive, next)

pickMaxStrict(recs, startYear, endYear, requirePositive) ==
    LET best == pickMaxStrictScan(recs, startYear, endYear, requirePositive,
                                  Null)
    IN  IF best = Null THEN NullPair
        ELSE RecordPair(round2(Rat(NumOf(best[1].value), 1)),
                        fmtRecordDate(best[1].isoDate))

RECURSIVE pickMinStrictScan(_, _, _, _)
pickMinStrictScan(recs, startYear, endYear, best) ==
    IF recs = <<>> THEN best
    ELSE LET r == Head(recs)
             next ==
                 IF ~inYears(r, startYear, endYear) THEN best
                 ELSE IF best = Null \/ NumOf(r.value) < NumOf(best[1].value)
                      THEN <<r>>
                 ELSE best
         IN  pickMinStrictScan(Tail(recs), startYear, endYear, next)

pickMinStrict(recs, startYear, endYear) ==
    LET best == pickMinStrictScan(recs, startYear, endYear, Null)
    IN  IF best = Null THEN NullPair
        ELSE RecordPair(round2(Rat(NumOf(best[1].value), 1)),
                        fmtRecordDate(best[1].isoDate))

getMonthlyRecordBundle(dailyRecordsByMonth, monthIdx, startYear, endYear) ==
    LET m == IF monthIdx \in DOMAIN dailyRecordsByMonth
             THEN dailyRecordsByMonth[monthIdx] ELSE EmptyBucket
    IN  [recHighTmax |-> pickMaxStrict(m.tmax, startYear, endYear, FALSE),
         recLowTmin |-> pickMinStrict(m.tmin, startYear, endYear),
         recMaxPrecip |-> pickMaxStrict(m.precip, startYear, endYear, TRUE),
         recMaxSnow |-> pickMaxStrict(m.snow, startYear, endYear, TRUE)]

----------------------------------------------------------------------------
(* Sheet "Climatology Master": what generateClimatologyMaster persists and  *)
(* what readExistingClimoRecords reads back, climatology.ts                 *)

\* A cell the Sheets API returns as the empty string: an empty cell that is
\* followed by a non-empty cell of its row. Empty cells at the end of a row
\* are left out of the returned row (undefined, here Null).
EmptyString == <<0, 0, 0, 0>>

\* Number(String(x).replace(/,/g, "")): Number("") is 0; a number cell comes
\* back as its text and parses to the same number.
asNum(x) ==
    IF x = Null THEN Null
    ELSE IF x = EmptyString THEN Num(0)
    ELSE x

\* row?.[i] ? String(row[i]) : null
dateCell(x) == IF x = Null \/ x = EmptyString THEN Null ELSE x

\* spreadsheets.values.get on one stored row: cells is the row's columns
\* T..AA (0-based 19..26); the month label in column A is never empty.
valuesGetRow(cells) ==
    [i \in 1..Len(cells) |->
        IF cells[i] # Null THEN cells[i]
        ELSE IF \E j \in (i + 1)..Len(cells) : cells[j] # Null
             THEN EmptyString
        ELSE Null]

\* One persisted month row: its label (column A) and its record cells.
\* Columns B..S hold the means computed from the Monthly Aggregates sheet.
ClimoRow(label, merged) ==
    [label |-> label,
     cells |-> <<merged.recHighTmax.value, merged.recHighTmax.date,
                 merged.recLowTmin.value, merged.recLowTmin.date,
                 merged.recMaxPrecip.value, merged.recMaxPrecip.date,
                 merged.recMaxSnow.value, merged.recMaxSnow.date>>]

\* The map month index -> ExistingMonthlyRecords read from rows 4..15; a
\* sheet never written has no rows.
readExistingClimoRecords(sheet) ==
    LET found == {k \in DOMAIN sheet : monthIndexFromName(sheet[k].label) # 0}
        rowOf(m) == CHOOSE k \in found :
                       /\ monthIndexFromName(sheet[k].label) = m
                       /\ \A j \in found :
                             monthIndexFromName(sheet[j].label) = m => j <= k
    IN  [m \in {monthIndexFromName(sheet[k].label) : k \in found} |->
            LET row == valuesGetRow(sheet[rowOf(m)].cells)
            IN  [recHighTmax |-> RecordPair(asNum(row[1]), dateCell(row[2])),
                 recLowTmin |-> RecordPair(asNum(row[3]), dateCell(row[4])),
                 recMaxPrecip |-> RecordPair(asNum(row[5]), dateCell(row[6])),
                 recMaxSnow |-> RecordPair(asNum(row[7]), dateCell(row[8]))]]

\* the merge that forgets what was persisted
mergeMonthlyRecordsStrict_ignoreExisting(existing, incoming) == incoming

\* existing is Null when the sheet has no row for the month
mergeMonthlyRecordsStrict(existing, incoming) ==
    IF existing = Null THEN incoming
    ELSE [recHighTmax |-> mergeMax(existing.recHighTmax, incoming.recHighTmax),
          recLowTmin |-> mergeMin(existing.recLowTmin, incoming.recLowTmin),
          recMaxPrecip |-> mergeMax(existing.recMaxPrecip,
                                    incoming.recMaxPrecip),
          recMaxSnow |-> mergeMax(existing.recMaxSnow, incoming.recMaxSnow)]

\* merged.recX?.[i] ?? null
pairOrNull(p) == RecordPair(OrNull(p.value), OrNull(p.date))

\* The twelve month rows generateClimatologyMaster writes after clearing the
\* sheet: per month the incoming bundle merged into the record read back.
climoMasterRows(existingRecordMap, monthlyDailyRecords) ==
    [m \in 1..12 |->
        LET incomingRecords ==
                getMonthlyRecordBundle(monthlyDailyRecords, m, Null, Null)
            existing == IF m \in DOMAIN existingRecordMap
                        THEN existingRecordMap[m] ELSE Null
            merged == mergeMonthlyRecordsStrict(existing, incomingRecords)
        IN  ClimoRow(MonthNames[m],
                     [recHighTmax |-> pairOrNull(merged.recHighTmax),
                      recLowTmin |-> pairOrNull(merged.recLowTmin),
                      recMaxPrecip |-> pairOrNull(merged.recMaxPrecip),
                      recMaxSnow |-> pairOrNull(merged.recMaxSnow)])]

generateClimatologyMaster(sheet, monthlyDailyRecords) ==
    climoMasterRows(readExistingClimoRecords(sheet), monthlyDailyRecords)

----------------------------------------------------------------------------
(* Sheet "Monthly Aggregates" and its de-duplication, sheetsTabHelpers.ts *)

LowerMonthNames ==
    <<"january", "february", "march", "april", "may", "june", "july",
      "august", "september", "october", "november", "december">>

\* monthName.trim().toLowerCase()
trimLower(monthName) ==
    IF monthIndexFromName(monthName) # 0
    THEN LowerMonthNames[monthIndexFromName(monthName)]
    ELSE monthName

monthlyAggKey(year, monthName) == [year |-> year, month |-> trimLower(monthName)]

\* rows whose year cell is 0 or empty, or whose month cell is empty, give no key
getMonthlyAggExistingKeys(sheet) ==
    {monthlyAggKey(sheet[k].year, sheet[k].month) :
        k \in {j \in DOMAIN sheet : sheet[j].year # 0 /\ sheet[j].month # ""}}

filterOutExistingMonthlyAgg_keepAll(rows, existingKeys) == rows

filterOutExistingMonthlyAgg(rows, existingKeys) ==
    LET IsNew(r) == monthlyAggKey(r.year, r.month) \notin existingKeys
    IN  SelectSeq(rows, IsNew)

----------------------------------------------------------------------------
(* The core on one batch of daily rows: Monthly Aggregator and Record       *)
(* Tracker are called on the rows of one fetch, as the route does.          *)

MaxRows == 2

\* "2020-03-01", "2020-03-02" and the malformed "2020-02-30"
AggDates == {<<2020, 3, 1>>, <<2020, 3, 2>>, <<2020, 2, 30>>}

AggTemps == {Null, Num(-5000), Num(28000), Num(30000)}

\* missing, 0, 0.004 and 50
AggPrecips == {Null, Num(0), Num(4), Num(50000)}

\* An OpenMeteoRow. The temperature variables carry one reading, the
\* rain/snow/precipitation sums another; the remaining variables are missing.
DailyRow(iso, t, p, s) ==
    [iso |-> iso, tmax |-> t, tmin |-> t, tmean |-> t, dew |-> Null,
     rh |-> Null, rain |-> p, snowfall |-> s, precip |-> p,
     sunshine |-> Null, daylight |-> Null]

AggRowSet == {DailyRow(d, t, p, p) : d \in AggDates, t \in AggTemps,
                                     p \in AggPrecips}

SeqsUpTo(S, n) == UNION {[1..k -> S] : k \in 0..n}

InitAgg ==
    /\ aRows \in SeqsUpTo(AggRowSet, MaxRows)
    /\ aBuilt = <<>>
    /\ aRecords = <<>>
    /\ aBuckets = <<>>
    /\ aFed = <<>>
    /\ aPc = {}
    /\ MergeIdle
    /\ RunIdle
    /\ WinIdle
    /\ ClimoIdle
    /\ NumIdle
    /\ ConIdle

CallBuildMonthlyAggregates ==
    /\ "aggregates" \notin aPc
    /\ aBuilt' = buildMonthlyAggregates(2020, aRows)
    /\ aPc' = aPc \cup {"aggregates"}
    /\ UNCHANGED <<aRows, aRecords, aBuckets, aFed, mergeVars, runVars, winVars,
                   climoVars, numVars, conVars>>

\* accumulateMonthlyDailyRecords on an empty accumulator, then the record
\* bundle of every month without a year window (as generateClimatologyMaster)
CallRecordTracker ==
    /\ "records" \notin aPc
    /\ LET acc == accumulateMonthlyDailyRecords(aRows, <<>>)
       IN  /\ aBuckets' = acc
           /\ aRecords' = [m \in 1..12 |->
                               getMonthlyRecordBundle(acc, m, Null, Null)]
    /\ aPc' = aPc \cup {"records"}
    /\ UNCHANGED <<aRows, aBuilt, aFed, mergeVars, runVars, winVars, climoVars,
                   numVars, conVars>>

NextAgg ==
    \/ CallBuildMonthlyAggregates
    \/ CallRecordTracker

SpecAgg == InitAgg /\ [][NextAgg]_vars

----------------------------------------------------------------------------
(* Claims about the Monthly Aggregator and the record pairs it emits *)

Built == "aggregates" \in aPc

\* the daily rows behind a built monthly row
RowsOf(row) == monthBucket(aRows, monthIndexFromName(row.month))

\* the non-null cells of one variable
Present(rows, f) == SelectSeq(Column(rows, f), NotNull)

PairOk(p) == (p.value = Null) <=> (p.date = Null)

\* C6: every record pair the core emits has a null date exactly when its
\* value is null: the five pairs of each monthly aggregate row and the four
\* pairs the record pickers reduce from the tracker's buckets.
C6_DateNullIffValueNull ==
    /\ Built =>
         \A k \in DOMAIN aBuilt :
            /\ PairOk(aBuilt[k].recHighTmax)
            /\ PairOk(aBuilt[k].recLowTmin)
            /\ PairOk(aBuilt[k].recMaxRain)
            /\ PairOk(aBuilt[k].recMaxSnow)
            /\ PairOk(aBuilt[k].recMaxPrecip)
    /\ "records" \in aPc =>
         \A m \in DOMAIN aRecords :
            /\ PairOk(aRecords[m].recHighTmax)
            /\ PairOk(aRecords[m].recLowTmin)
            /\ PairOk(aRecords[m].recMaxPrecip)
            /\ PairOk(aRecords[m].recMaxSnow)

\* every row of the batch carries a calendar date
AllDatesValid == \A i \in 1..Len(aRows) : isValidIso(aRows[i].iso)

MeanOfPresent(rows, f) ==
    round2(Rat(SumSeq(Present(rows, f)), Len(Present(rows, f))))

\* C7: a month's mean and total of a variable are taken over the days whose
\* value is non-null only: a null day changes neither numerator nor divisor.
C7_MeanOverNonNullDays ==
    (Built /\ AllDatesValid) =>
      \A k \in DOMAIN aBuilt :
         LET rows == RowsOf(aBuilt[k])
         IN  /\ Present(rows, "tmax") # <<>> =>
                  aBuilt[k].meanTmax = MeanOfPresent(rows, "tmax")
             /\ Present(rows, "tmin") # <<>> =>
                  aBuilt[k].meanTmin = MeanOfPresent(rows, "tmin")
             /\ Present(rows, "precip") # <<>> =>
                  aBuilt[k].totalPrecipMm
                      = Num(SumSeq(Present(rows, "precip")))

\* C8: a metric that is null on every day of the month is null in the
\* month's mean, total and record pair.
C8_AllNullStaysNull ==
    (Built /\ AllDatesValid) =>
      \A k \in DOMAIN aBuilt :
         LET rows == RowsOf(aBuilt[k])
         IN  /\ Present(rows, "tmax") = <<>> =>
                  /\ aBuilt[k].meanTmax = Null
                  /\ aBuilt[k].recHighTmax = NullPair
             /\ Present(rows, "tmin") = <<>> =>
                  /\ aBuilt[k].meanTmin = Null
                  /\ aBuilt[k].recLowTmin = NullPair
             /\ Present(rows, "dew") = <<>> => aBuilt[k].meanDew = Null
             /\ Present(rows, "precip") = <<>> =>
                  /\ aBuilt[k].totalPrecipMm = Null
                  /\ aBuilt[k].recMaxPrecip = NullPair
             /\ Present(rows, "sunshine") = <<>> =>
                  aBuilt[k].sunshineHours = Null

\* C9: the valid-day count of a month is the number of its rows whose
\* precipitation_sum is a non-null number.
C9_ValidDaysCountsPrecip ==
    (Built /\ AllDatesValid) =>
      \A k \in DOMAIN aBuilt :
         aBuilt[k].validDays = Len(Present(RowsOf(aBuilt[k]), "precip"))

\* every reordering of a sequence
PermutationsOf(rows) ==
    {[i \in 1..Len(rows) |-> rows[p[i]]] : p \in Permutations(1..Len(rows))}

IsoBefore(a, b) ==
    \/ a[1] < b[1]
    \/ a[1] = b[1] /\ a[2] < b[2]
    \/ a[1] = b[1] /\ a[2] = b[2] /\ a[3] < b[3]

\* (the extreme value, the earliest date it occurred on) over the days whose
\* value is non-null; sign = 1 for a maximum, -1 for a minimum
ExtremePair(rows, f, sign, positive) ==
    LET idx == {i \in 1..Len(rows) :
                   /\ rows[i][f] # Null
                   /\ positive => NumOf(rows[i][f]) > 0}
    IN  IF idx = {} THEN NullPair
        ELSE LET top == CHOOSE i \in idx : \A j \in idx :
                           sign * NumOf(rows[i][f]) >= sign * NumOf(rows[j][f])
                 ties == {i \in idx : rows[i][f] = rows[top][f]}
                 first == CHOOSE i \in ties : \A j \in ties :
                             ~IsoBefore(rows[j].iso, rows[i].iso)
             IN  RecordPair(rows[top][f], PrettyDate(rows[first].iso))

\* the order-independence half of C10 on its own
OrderIndependent ==
    (Built /\ AllDatesValid) =>
        \A perm \in PermutationsOf(aRows) :
            buildMonthlyAggregates(2020, perm) = aBuilt

\* C10: for daily rows of a month in any order the monthly row is the same,
\* and each record pair is (the extreme value, the earliest date it occurred).
C10_OrderIndependentExtremes ==
    (Built /\ AllDatesValid) =>
      /\ \A perm \in PermutationsOf(aRows) :
            buildMonthlyAggregates(2020, perm) = aBuilt
      /\ \A k \in DOMAIN aBuilt :
            LET rows == RowsOf(aBuilt[k])
            IN  /\ aBuilt[k].recHighTmax = ExtremePair(rows, "tmax", 1, FALSE)
                /\ aBuilt[k].recLowTmin = ExtremePair(rows, "tmin", -1, FALSE)
                /\ aBuilt[k].recMaxPrecip
                       = ExtremePair(rows, "precip", 1, TRUE)

----------------------------------------------------------------------------
(* The ingestion route, POST of api/weather-to-sheets/route.ts: one request *)
(* after the other on the same spreadsheet.                                 *)

MaxRuns == 2

\* the years a request covers; each year is one fetch of daily rows
RunYears == <<2020>>

RunDates == {<<2020, 3, 1>>, <<2020, 7, 1>>}

RunTemps == {Null, Num(-5000), Num(30000)}

RunPrecips == {Null, Num(0), Num(50000)}

RunSnows == {Null, Num(2000)}

RunRowSet == {DailyRow(d, t, p, sn) : d \in RunDates, t \in RunTemps,
                                      p \in RunPrecips, sn \in RunSnows}

\* what fetchDailyRowsRange returns for one year of one request
RunBatches == {<<r>> : r \in RunRowSet}

\* The year loop from position k on: st carries monthlyDailyRecords, the
\* Monthly Aggregates sheet and existingMonthlyAggKeys.
RECURSIVE yearLoop(_, _, _)
yearLoop(fetched, k, st) ==
    IF k > Len(RunYears) THEN st
    ELSE LET year == RunYears[k]
             rawRows == fetched[k]
             monthlyRows == buildMonthlyAggregates(year, rawRows)
             rowsToAppend == filterOutExistingMonthlyAgg(monthlyRows, st.keys)
         IN  yearLoop(fetched, k + 1,
                 [records |-> accumulateMonthlyDailyRecords(rawRows,
                                                            st.records),
                  sheet |-> st.sheet \o rowsToAppend,
                  built |-> st.built \o monthlyRows,
                  keys |-> st.keys \cup
                       {monthlyAggKey(rowsToAppend[j].year,
                                      rowsToAppend[j].month) :
                            j \in DOMAIN rowsToAppend}])

POST(fetched) ==
    /\ runs < MaxRuns
    /\ LET st == yearLoop(fetched, 1,
                     [records |-> <<>>,
                      sheet |-> monthlyAggSheet,
                      built |-> <<>>,
                      keys |-> getMonthlyAggExistingKeys(monthlyAggSheet)])
       IN  /\ monthlyAggSheet' = st.sheet
           /\ climoMaster' = generateClimatologyMaster(climoMaster, st.records)
           /\ lastRun' =
                 [existing |-> readExistingClimoRecords(climoMaster),
                  monthlyRows |-> st.built,
                  incoming |-> [m \in 1..12 |->
                      getMonthlyRecordBundle(st.records, m, Null, Null)]]
    /\ fetchedRows' = fetchedRows \cup
           UNION {{fetched[k][j] : j \in DOMAIN fetched[k]} :
                     k \in DOMAIN fetched}
    /\ runs' = runs + 1
    /\ UNCHANGED <<mergeVars, aggVars, winVars, climoVars, numVars, conVars>>

Init ==
    /\ climoMaster = <<>>
    /\ monthlyAggSheet = <<>>
    /\ lastRun = <<>>
    /\ fetchedRows = {}
    /\ runs = 0
    /\ MergeIdle
    /\ AggIdle
    /\ WinIdle
    /\ ClimoIdle
    /\ NumIdle
    /\ ConIdle

Next == \E fetched \in [1..Len(RunYears) -> RunBatches] : POST(fetched)

Spec == Init /\ [][Next]_vars

----------------------------------------------------------------------------
(* Claims about the persisted records across runs *)

\* the persisted value cell of a month: column T, V, X or Z of its row
PersistedValue(sheet, m, col) ==
    IF sheet = <<>> THEN Null ELSE sheet[m].cells[col]

NeverBelow(old, new) == old # Null => (new # Null /\ NumOf(new) >= NumOf(old))

NeverAbove(old, new) == old # Null => (new # Null /\ NumOf(new) <= NumOf(old))

RecordsMonotone ==
    \A m \in 1..12 :
        /\ NeverBelow(PersistedValue(climoMaster, m, 1),
                      PersistedValue(climoMaster', m, 1))
        /\ NeverAbove(PersistedValue(climoMaster, m, 3),
                      PersistedValue(climoMaster', m, 3))
        /\ NeverBelow(PersistedValue(climoMaster, m, 5),
                      PersistedValue(climoMaster', m, 5))
        /\ NeverBelow(PersistedValue(climoMaster, m, 7),
                      PersistedValue(climoMaster', m, 7))

\* C2: from one run to the next a persisted max-type record value, once
\* non-null, never decreases and the persisted record-low value never
\* increases, whatever the run observed.
C2_PersistedRecordsMonotone == [][RecordsMonotone]_vars

\* a run that met a persisted record high of 30.00 with a candidate of -5.00
\* and left 30.00 on the sheet
C2_Witness ==
    /\ runs >= 2
    /\ lastRun.existing[3].recHighTmax.value = Num(30000)
    /\ lastRun.incoming[3].recHighTmax.value = Num(-5000)
    /\ PersistedValue(climoMaster, 3, 1) = Num(30000)

----------------------------------------------------------------------------
(* Claims about the Record Tracker and about rows with a malformed date *)

Tracked == "records" \in aPc

\* the candidates of one variable a month should hold: one per row of that
\* month, valid date, whose variable is a number, in row order
RECURSIVE FiniteCandidates(_, _, _)
FiniteCandidates(rows, m, f) ==
    IF rows = <<>> THEN <<>>
    ELSE LET r == Head(rows)
             rest == FiniteCandidates(Tail(rows), m, f)
         IN  IF isValidIso(r.iso) /\ r.iso[2] = m /\ r[f] # Null
             THEN <<DailyRecordPoint(r[f], r.iso)>> \o rest
             ELSE rest

BucketOf(m) == IF m \in DOMAIN aBuckets THEN aBuckets[m] ELSE EmptyBucket

\* C11: the Record Tracker holds, for tmax, tmin, precipitation and snowfall,
\* exactly one candidate per row whose variable is a finite number; a row
\* whose variable is null contributes no candidate.
C11_OnlyFiniteCandidates ==
    Tracked =>
      \A m \in 1..12 :
         /\ BucketOf(m).tmax = FiniteCandidates(aRows, m, "tmax")
         /\ BucketOf(m).tmin = FiniteCandidates(aRows, m, "tmin")
         /\ BucketOf(m).precip = FiniteCandidates(aRows, m, "precip")
         /\ BucketOf(m).snow = FiniteCandidates(aRows, m, "snowfall")

ValidDate(r) == isValidIso(r.iso)

\* C12: rows whose date is not a calendar date are skipped by the Monthly
\* Aggregator and by the Record Tracker: both return what they return on the
\* rows with a valid date alone.
C12_MalformedDateSkipped ==
    /\ Built => aBuilt = buildMonthlyAggregates(2020,
                                                SelectSeq(aRows, ValidDate))
    /\ Tracked => aBuckets = accumulateMonthlyDailyRecords(
                                 SelectSeq(aRows, ValidDate), <<>>)

\* the Record Tracker's half of C12, which the code does satisfy
TrackerSkipsMalformedDate ==
    Tracked => aBuckets = accumulateMonthlyDailyRecords(
                              SelectSeq(aRows, ValidDate), <<>>)

----------------------------------------------------------------------------
(* buildWindows, climatology.ts: the loop one iteration at a time.  The     *)
(* loop reads its counter k only through start = baseStartYear + k *        *)
(* stepYears, so the state keeps start and the parity of k.                 *)

\* out.length > 50 ends the loop
WINDOW_CAP == 50

Ceil_floor(a, b) == a \div b

\* Math.ceil(a / b) for b # 0
Ceil(a, b) == IF b > 0 THEN -((-a) \div b) ELSE -(a \div (-b))

firstK_fromBase(a) == 0

\* k = Math.ceil((minYear - baseStartYear) / stepYears), 0 when not finite
firstK(a) ==
    IF a.stepYears = 0 THEN 0
    ELSE Ceil(a.minYear - a.baseStartYear, a.stepYears)

WinArgs ==
    [minYear : {1930, 1950, 2021}, maxYear : {2020}, baseStartYear : {1961, 2000},
     windowYears : {0, 1, 30}, stepYears : {-30, 0, 1, 30}]

InitWin ==
    /\ wArgs \in WinArgs
    /\ wStart = 0
    /\ wTick = 0
    /\ wOut = <<>>
    /\ wPc = "call"
    /\ MergeIdle
    /\ AggIdle
    /\ RunIdle
    /\ ClimoIdle
    /\ NumIdle
    /\ ConIdle

buildWindows_enter ==
    /\ wPc = "call"
    /\ wStart' = wArgs.baseStartYear + firstK(wArgs) * wArgs.stepYears
    /\ wTick' = firstK(wArgs) % 2
    /\ wOut' = <<>>
    /\ wPc' = "loop"
    /\ UNCHANGED <<wArgs, mergeVars, aggVars, runVars, climoVars, numVars, conVars>>

\* the body of for (;;)
buildWindows_iterate ==
    /\ wPc = "loop"
    /\ LET start == wStart
           end == start + (wArgs.windowYears - 1)
       IN  IF start > wArgs.maxYear
           THEN /\ wPc' = "done"
                /\ UNCHANGED <<wStart, wTick, wOut>>
           ELSE /\ wOut' = IF end <= wArgs.maxYear
                           THEN Append(wOut, [start |-> start, end |-> end])
                           ELSE wOut
                /\ wStart' = wStart + wArgs.stepYears
                /\ wTick' = 1 - wTick
                /\ wPc' = IF Len(wOut') > WINDOW_CAP THEN "done" ELSE "loop"
    /\ UNCHANGED <<wArgs, mergeVars, aggVars, runVars, climoVars, numVars, conVars>>

NextWin ==
    \/ buildWindows_enter
    \/ buildWindows_iterate

\* the loop is synchronous code: while it can take an iteration it does
SpecWin == InitWin /\ [][NextWin]_vars /\ WF_vars(NextWin)

----------------------------------------------------------------------------
(* Claims about buildWindows *)

WellFormed(a) == a.stepYears >= 1 /\ a.windowYears >= 1

\* the window starts the statement allows
FittingStarts(a) ==
    {st \in a.minYear..a.maxYear :
        /\ (st - a.baseStartYear) % a.stepYears = 0
        /\ st + a.windowYears - 1 <= a.maxYear}

RECURSIVE AscendingWindows(_, _)
AscendingWindows(S, a) ==
    IF S = {} THEN <<>>
    ELSE LET st == CHOOSE x \in S : \A y \in S : x <= y
         IN  <<[start |-> st, end |-> st + a.windowYears - 1]>>
             \o AscendingWindows(S \ {st}, a)

\* C13: for stepYears >= 1 and windowYears >= 1 buildWindows returns, in
\* ascending order, exactly the windows that start at baseStartYear plus a
\* multiple of stepYears, not before minYear, and end by maxYear.
C13_ExactlyTheFittingWindows ==
    (wPc = "done" /\ WellFormed(wArgs))
        => wOut = AscendingWindows(FittingStarts(wArgs), wArgs)

\* C13 (amended): for stepYears >= 1 and windowYears >= 1 buildWindows
\* returns, in ascending order, the first WINDOW_CAP + 1 of the fitting
\* windows, which is all of them when no more than that many fit.
C13_FittingWindowsUpToCap ==
    (wPc = "done" /\ WellFormed(wArgs))
        => LET all == AscendingWindows(FittingStarts(wArgs), wArgs)
           IN  wOut = IF Len(all) > WINDOW_CAP + 1
                      THEN SubSeq(all, 1, WINDOW_CAP + 1)
                      ELSE all

\* minYear 1950, maxYear 2020, step 1, window 1: 71 windows fit and the call
\* has returned
C13_Witness ==
    /\ wPc = "done"
    /\ WellFormed(wArgs)
    /\ Cardinality(FittingStarts(wArgs)) > WINDOW_CAP + 1
    /\ Len(wOut) = WINDOW_CAP + 1

\* C14: buildWindows terminates for every combination of integer arguments
\* and never returns more than the capped number of windows.
C14_TerminatesWithinCap ==
    /\ <>(wPc = "done")
    /\ [](Len(wOut) <= WINDOW_CAP + 1)

\* the cap half of C14, which the code does satisfy
NeverMoreThanCap == Len(wOut) <= WINDOW_CAP + 1

----------------------------------------------------------------------------
(* Claims about the records of precipitation, rain and snow *)

PositiveOrNull(p) == p = NullPair \/ (p.value # Null /\ NumOf(p.value) > 0)

\* no row of the sequence has a value above 0 for the variable
NonePositive(rows, f) ==
    \A k \in DOMAIN rows : rows[k][f] = Null \/ NumOf(rows[k][f]) <= 0

ValidRowsOfMonth(m) ==
    SelectSeq(aRows, LAMBDA r : isValidIso(r.iso) /\ r.iso[2] = m)

\* C20: a record pair derived from precipitation, rain or snow is (null,
\* null) or has a value above 0, and is (null, null) when no candidate is
\* above 0: in the rows of the Monthly Aggregator and in the record bundle
\* the pickers return.
C20_WetRecordsPositive ==
    /\ Built =>
         \A k \in DOMAIN aBuilt :
            LET rows == RowsOf(aBuilt[k])
            IN  /\ PositiveOrNull(aBuilt[k].recMaxRain)
                /\ PositiveOrNull(aBuilt[k].recMaxSnow)
                /\ PositiveOrNull(aBuilt[k].recMaxPrecip)
                /\ NonePositive(rows, "rain")
                      => aBuilt[k].recMaxRain = NullPair
                /\ NonePositive(rows, "snowfall")
                      => aBuilt[k].recMaxSnow = NullPair
                /\ NonePositive(rows, "precip")
                      => aBuilt[k].recMaxPrecip = NullPair
    /\ Tracked =>
         \A m \in DOMAIN aRecords :
            /\ PositiveOrNull(aRecords[m].recMaxPrecip)
            /\ PositiveOrNull(aRecords[m].recMaxSnow)
            /\ NonePositive(ValidRowsOfMonth(m), "precip")
                  => aRecords[m].recMaxPrecip = NullPair
            /\ NonePositive(ValidRowsOfMonth(m), "snowfall")
                  => aRecords[m].recMaxSnow = NullPair

\* the Monthly Aggregator's half of C20, which the code does satisfy
AggregatorWetRecordsPositive ==
    Built =>
      \A k \in DOMAIN aBuilt :
         /\ PositiveOrNull(aBuilt[k].recMaxRain)
         /\ PositiveOrNull(aBuilt[k].recMaxSnow)
         /\ PositiveOrNull(aBuilt[k].recMaxPrecip)

----------------------------------------------------------------------------
(* Window rows: computeWindowClimo (climatology.ts) and                     *)
(* computeClimatologyFromMonthlyAggregates (computeClimatology.ts).  A row  *)
(* is the array the code builds; cell(r, i) is r[i].                        *)

cell(r, i) == r[i + 1]

\* IEEE-754 binary64 numbers, for the sums the helpers take in the order of
\* their input.  A positive normal double is <<e, m>>: the 53 bits m of its
\* significand, lowest bit first, times 2^e.  NotANumber stands for NaN and
\* the infinities.  Numbers <<n>> on the decimal grid are added exactly.
NotANumber == <<0, 0, 0, 0, 0>>

IsDouble(x) == Len(x) = 2

\* typeof v === "number" && Number.isFinite(v)
IsFiniteNumber(x) == Len(x) \in {1, 2}

\* the four bits of a hexadecimal digit, lowest first
Nibble(d) == <<d % 2, (d \div 2) % 2, (d \div 4) % 2, (d \div 8) % 2>>

\* the bits, lowest first, of a hexadecimal numeral given highest digit first
RECURSIVE HexBits(_)
HexBits(h) ==
    IF h = <<>> THEN <<>>
    ELSE HexBits(SubSeq(h, 2, Len(h))) \o Nibble(h[1])

\* without the zero bits above the highest one
RECURSIVE TrimBits(_)
TrimBits(b) ==
    IF b = <<>> \/ b[Len(b)] = 1 THEN b
    ELSE TrimBits(SubSeq(b, 1, Len(b) - 1))

RECURSIVE AddBits(_, _, _)
AddBits(a, b, carry) ==
    IF a = <<>> /\ b = <<>> THEN (IF carry = 1 THEN <<1>> ELSE <<>>)
    ELSE LET x == IF a = <<>> THEN 0 ELSE a[1]
             y == IF b = <<>> THEN 0 ELSE b[1]
             s == x + y + carry
         IN  <<s % 2>> \o AddBits(IF a = <<>> THEN a ELSE Tail(a),
                                  IF b = <<>> THEN b ELSE Tail(b),
                                  s \div 2)

ShiftLeft(b, d) == [i \in 1..d |-> 0] \o b

\* round-to-nearest, ties-to-even of the exact value bits * 2^e (plus a
\* nonzero remainder below the lowest bit when sticky) to 53 bits
RoundToDouble(e, bits, sticky) ==
    LET s == TrimBits(bits)
        n == Len(s)
        k == n - 53
        kept == SubSeq(s, k + 1, n)
        half == k > 0 /\ s[k] = 1
        below == sticky \/ \E i \in 1..(k - 1) : s[i] = 1
        up == half /\ (below \/ kept[1] = 1)
        m == IF up THEN AddBits(kept, <<1>>, 0) ELSE kept
    IN  IF Len(m) = 54 THEN <<e + k + 1, Tail(m)>> ELSE <<e + k, m>>

\* a + b of two doubles
DoubleAdd(a, b) ==
    LET lo == IF a[1] <= b[1] THEN a[1] ELSE b[1]
    IN  RoundToDouble(lo, AddBits(ShiftLeft(a[2], a[1] - lo),
                                  ShiftLeft(b[2], b[1] - lo), 0), FALSE)

\* bits (highest first) divided by the small integer n: quotient bits
\* (highest first) and remainder
RECURSIVE DivBits(_, _, _, _)
DivBits(hi, n, rem, q) ==
    IF hi = <<>> THEN <<q, rem>>
    ELSE LET r == 2 * rem + hi[1]
         IN  DivBits(Tail(hi), n, r % n, Append(q, r \div n))

Reverse(s) == [i \in 1..Len(s) |-> s[Len(s) + 1 - i]]

\* a / n of a double and a small positive integer
DoubleDivInt(a, n) ==
    LET d == DivBits(Reverse(ShiftLeft(a[2], 8)), n, 0, <<>>)
    IN  RoundToDouble(a[1] - 8, Reverse(d[1]), d[2] # 0)

\* a < b of two doubles
RECURSIVE BitsLess(_, _)
BitsLess(a, b) ==
    IF a = <<>> THEN FALSE
    ELSE IF a[Len(a)] # b[Len(b)] THEN a[Len(a)] < b[Len(b)]
    ELSE BitsLess(SubSeq(a, 1, Len(a) - 1), SubSeq(b, 1, Len(b) - 1))

DoubleLess(a, b) == a[1] < b[1] \/ (a[1] = b[1] /\ BitsLess(a[2], b[2]))

\* a.reduce((s, v) => s + v, 0): 0 + v is v, then left to right
RECURSIVE DoubleSum(_, _)
DoubleSum(a, s) ==
    IF a = <<>> THEN s ELSE DoubleSum(Tail(a), DoubleAdd(s, Head(a)))

RECURSIVE DoubleMax(_)
DoubleMax(a) ==
    IF Len(a) = 1 THEN a[1]
    ELSE LET rest == DoubleMax(Tail(a))
         IN  IF DoubleLess(a[1], rest) THEN rest ELSE a[1]

RECURSIVE DoubleMin(_)
DoubleMin(a) ==
    IF Len(a) = 1 THEN a[1]
    ELSE LET rest == DoubleMin(Tail(a))
         IN  IF DoubleLess(rest, a[1]) THEN rest ELSE a[1]

\* the double of a hexadecimal significand (14 digits) and an exponent of two
Double(e, hex) == <<e, TrimBits(HexBits(hex))>>

\* 0.1 is 0x1.999999999999ap-4, 0.2 is 0x1.999999999999ap-3 and
\* 0.3 is 0x1.3333333333333p-2
Double01 == Double(-56, <<1, 9, 9, 9, 9, 9, 9, 9, 9, 9, 9, 9, 9, 10>>)

Double02 == Double(-55, <<1, 9, 9, 9, 9, 9, 9, 9, 9, 9, 9, 9, 9, 10>>)

Double03 == Double(-54, <<1, 3, 3, 3, 3, 3, 3, 3, 3, 3, 3, 3, 3, 3>>)

\* nums.filter(v => typeof v === "number" && Number.isFinite(v))
finite(nums) == SelectSeq(nums, IsFiniteNumber)

mean(nums) ==
    LET a == finite(nums)
    IN  IF a = <<>> THEN Null
        ELSE IF IsDouble(a[1])
             THEN DoubleDivInt(DoubleSum(Tail(a), a[1]), Len(a))
        ELSE Rat(SumSeq(a), Len(a))

RECURSIVE MaxSeq(_)
MaxSeq(a) ==
    IF Len(a) = 1 THEN NumOf(a[1])
    ELSE LET rest == MaxSeq(Tail(a))
         IN  IF NumOf(a[1]) >= rest THEN NumOf(a[1]) ELSE rest

RECURSIVE MinSeq(_)
MinSeq(a) ==
    IF Len(a) = 1 THEN NumOf(a[1])
    ELSE LET rest == MinSeq(Tail(a))
         IN  IF NumOf(a[1]) <= rest THEN NumOf(a[1]) ELSE rest

max(nums) ==
    LET a == finite(nums)
    IN  IF a = <<>> THEN Null
        ELSE IF IsDouble(a[1]) THEN DoubleMax(a)
        ELSE Rat(MaxSeq(a), 1)

min(nums) ==
    LET a == finite(nums)
    IN  IF a = <<>> THEN Null
        ELSE IF IsDouble(a[1]) THEN DoubleMin(a)
        ELSE Rat(MinSeq(a), 1)

sum(nums) ==
    LET a == finite(nums)
    IN  IF a = <<>> THEN Null
        ELSE IF IsDouble(a[1]) THEN DoubleSum(Tail(a), a[1])
        ELSE Rat(SumSeq(a), 1)

\* sumNonNull of computeHelpers: the sum of the non-null values, null when
\* there is none
sumNonNull(nums) == sum(nums)

\* a count as a number cell
Count(n) == Num(1000 * n)

\* an unrounded number written to a cell as it is
Plain(x) == IF x = Null THEN Null ELSE Num(x.n)

inWindow(records, startYear, endYear) ==
    SelectSeq(records, LAMBDA r : r.year >= startYear /\ r.year <= endYear)

RECURSIVE pickYearScan(_, _)
pickYearScan(bucket, best) ==
    IF bucket = <<>> THEN best
    ELSE LET r == Head(bucket)
             p == r.precip
             next ==
                 IF p = Null THEN best
                 ELSE IF best.val = Null \/ NumOf(p) > NumOf(best.val)
                      THEN [val |-> p, year |-> Num(r.year)]
                 ELSE IF p = best.val /\ best.year # Null
                         /\ r.year < NumOf(best.year)
                      THEN [val |-> best.val, year |-> Num(r.year)]
                 ELSE best
         IN  pickYearScan(Tail(bucket), next)

\* the year is a plain integer cell, <<y>>
pickYearOfMaxMonthlyTotal(bucket) ==
    pickYearScan(bucket, [val |-> Null, year |-> Null]).year

\* v == null ? null : v > 1 && v <= 100 ? v / 100 : v, in units of 1/100000
normSunPct(v) ==
    IF v = Null THEN Null
    ELSE IF NumOf(v) > 1000 /\ NumOf(v) <= 100000 THEN v
    ELSE Num(100 * NumOf(v))

meanSunPct(sunPct) ==
    LET a == finite([k \in DOMAIN sunPct |-> normSunPct(sunPct[k])])
    IN  IF a = <<>> THEN Null ELSE Rat(SumSeq(a), 100 * Len(a))

\* one month of the loop of computeWindowClimo
climoMonthRow(window, m, startYear, endYear, dailyRecordsByMonth) ==
    LET bucket == SelectSeq(window, LAMBDA v : v.monthIdx = m)
        rec == getMonthlyRecordBundle(dailyRecordsByMonth, m,
                                      Num(startYear), Num(endYear))
    IN  <<MonthNames[m],
          round2(mean(Column(bucket, "tmax"))),
          round2(mean(Column(bucket, "tmin"))),
          round2(mean(Column(bucket, "tmean"))),
          round2(mean(Column(bucket, "dew"))),
          round2(mean(Column(bucket, "rh"))),
          round2(mean(Column(bucket, "rain"))),
          round2(mean(Column(bucket, "rainyDays"))),
          round2(mean(Column(bucket, "snowfall"))),
          round2(mean(Column(bucket, "snowyDays"))),
          round2(mean(Column(bucket, "precip"))),
          round2(mean(Column(bucket, "wetDays"))),
          round2(mean(Column(bucket, "sunshine"))),
          round2(meanSunPct(Column(bucket, "sunshinePct"))),
          IF Len(bucket) = 0 THEN Null ELSE Count(Len(bucket)),
          round2(max(Column(bucket, "tmax"))),
          round2(min(Column(bucket, "tmin"))),
          round2(max(Column(bucket, "precip"))),
          pickYearOfMaxMonthlyTotal(bucket),
          rec.recHighTmax.value, rec.recHighTmax.date,
          rec.recLowTmin.value, rec.recLowTmin.date,
          rec.recMaxPrecip.value, rec.recMaxPrecip.date,
          rec.recMaxSnow.value, rec.recMaxSnow.date>>

\* rows.map(r => r[i])
CellColumn(rows, i) == [k \in DOMAIN rows |-> cell(rows[k], i)]

\* the annual row over the twelve month rows
annualRowOf(climoRows) ==
    <<"Annual (from monthly means)",
      round2(mean(CellColumn(climoRows, 1))),
      round2(mean(CellColumn(climoRows, 2))),
      round2(mean(CellColumn(climoRows, 3))),
      round2(mean(CellColumn(climoRows, 4))),
      round2(mean(CellColumn(climoRows, 5))),
      round2(sum(CellColumn(climoRows, 6))),
      round2(sum(CellColumn(climoRows, 7))),
      round2(sum(CellColumn(climoRows, 8))),
      round2(sum(CellColumn(climoRows, 9))),
      round2(sum(CellColumn(climoRows, 10))),
      round2(sum(CellColumn(climoRows, 11))),
      round2(mean(CellColumn(climoRows, 12))),
      round2(mean(CellColumn(climoRows, 13))),
      Plain(max(CellColumn(climoRows, 14))),
      round2(max(CellColumn(climoRows, 15))),
      round2(min(CellColumn(climoRows, 16))),
      round2(max(CellColumn(climoRows, 17))),
      Null, Null, Null, Null, Null, Null, Null, Null, Null>>

computeWindowClimo(records, startYear, endYear, dailyRecordsByMonth) ==
    LET window == inWindow(records, startYear, endYear)
        climoRows == [m \in 1..12 |->
                         climoMonthRow(window, m, startYear, endYear,
                                       dailyRecordsByMonth)]
        annualRow == annualRowOf(climoRows)
    IN  [climoRows |-> climoRows, annualRow |-> annualRow]

byMonth(records, monthIndex) ==
    SelectSeq(records, LAMBDA r : r.monthIndex = monthIndex)

RECURSIVE bestMaxScan(_, _, _)
bestMaxScan(pairs, requirePositive, best) ==
    IF pairs = <<>> THEN best
    ELSE LET p == Head(pairs)
             next ==
                 IF p.value = Null THEN best
                 ELSE IF requirePositive /\ ~(NumOf(p.value) > 0) THEN best
                 ELSE IF best.value = Null
                         \/ NumOf(p.value) > NumOf(best.value)
                      THEN RecordPair(p.value, p.date)
                 ELSE best
         IN  bestMaxScan(Tail(pairs), requirePositive, next)

\* bestMaxPair(records, getter, requirePositive), the getter naming a field
bestMaxPair(records, getter, requirePositive) ==
    LET best == bestMaxScan(Column(records, getter), requirePositive, NullPair)
    IN  RecordPair(IF best.value # Null
                   THEN round2(Rat(NumOf(best.value), 1)) ELSE Null,
                   best.date)

RECURSIVE bestMinScan(_, _)
bestMinScan(pairs, best) ==
    IF pairs = <<>> THEN best
    ELSE LET p == Head(pairs)
             next ==
                 IF p.value = Null THEN best
                 ELSE IF best.value = Null
                         \/ NumOf(p.value) < NumOf(best.value)
                      THEN RecordPair(p.value, p.date)
                 ELSE best
         IN  bestMinScan(Tail(pairs), next)

bestMinPair(records, getter) ==
    LET best == bestMinScan(Column(records, getter), NullPair)
    IN  RecordPair(IF best.value # Null
                   THEN round2(Rat(NumOf(best.value), 1)) ELSE Null,
                   best.date)

RECURSIVE wettestScan(_, _)
wettestScan(records, best) ==
    IF records = <<>> THEN best
    ELSE LET r == Head(records)
             t == r.totalPrecip
             next ==
                 IF t = Null THEN best
                 ELSE IF best.total = Null \/ NumOf(t) > NumOf(best.total)
                      THEN [total |-> t, year |-> Num(r.year)]
                 ELSE best
         IN  wettestScan(Tail(records), next)

wettestMonthlyTotal(records) ==
    LET best == wettestScan(records, [total |-> Null, year |-> Null])
    IN  [total |-> IF best.total # Null
                   THEN round2(Rat(NumOf(best.total), 1)) ELSE Null,
         year |-> best.year]

\* window.find(r => r.monthIndex === m)?.monthName ?? String(m)
monthNameFor(window, m) ==
    IF byMonth(window, m) # <<>> THEN byMonth(window, m)[1].monthName
    ELSE ToString(m)

\* one month of the loop of computeClimatologyFromMonthlyAggregates
aggMonthRow(window, m) ==
    LET b == byMonth(window, m)
        valid == SelectSeq(b, LAMBDA x : x.validDays # Null
                                          /\ NumOf(x.validDays) > 0)
        wet == wettestMonthlyTotal(b)
        recHighTmax == bestMaxPair(b, "recordHighTmax", FALSE)
        recLowTmin == bestMinPair(b, "recordLowTmin")
        recMaxRain == bestMaxPair(b, "recordMax24hRain", TRUE)
        recMaxPrecip == bestMaxPair(b, "recordMax24hPrecip", TRUE)
        recMaxSnow == bestMaxPair(b, "recordMax24hSnow", TRUE)
    IN  <<monthNameFor(window, m),
          round2(mean(Column(b, "meanTmax"))),
          round2(mean(Column(b, "meanTmin"))),
          round2(mean(Column(b, "meanTemp"))),
          round2(mean(Column(b, "meanDewPoint"))),
          round2(mean(Column(b, "meanRh"))),
          round2(mean(Column(b, "totalRain"))),
          round2(mean(Column(b, "rainyDays"))),
          round2(mean(Column(b, "totalSnow"))),
          round2(mean(Column(b, "snowyDays"))),
          round2(mean(Column(b, "totalPrecip"))),
          round2(mean(Column(b, "wetDays"))),
          round2(mean(Column(b, "totalSunshineHours"))),
          round2(mean(Column(b, "percentPossibleSunshineFrac"))),
          IF Len(valid) = 0 THEN Null ELSE Count(Len(valid)),
          round2(max(Column(b, "meanTmax"))),
          round2(min(Column(b, "meanTmin"))),
          wet.total, wet.year,
          recHighTmax.value, recHighTmax.date,
          recLowTmin.value, recLowTmin.date,
          recMaxRain.value, recMaxRain.date,
          recMaxPrecip.value, recMaxPrecip.date,
          recMaxSnow.value, recMaxSnow.date>>

computeClimatologyFromMonthlyAggregates(records, startYear, endYear) ==
    LET window == inWindow(records, startYear, endYear)
        rows == [m \in 1..12 |-> aggMonthRow(window, m)]
        annualRow ==
            <<"Annual",
              round2(mean(CellColumn(rows, 1))),
              round2(mean(CellColumn(rows, 2))),
              round2(mean(CellColumn(rows, 3))),
              round2(mean(CellColumn(rows, 4))),
              round2(mean(CellColumn(rows, 5))),
              round2(sumNonNull(CellColumn(rows, 6))),
              round2(sumNonNull(CellColumn(rows, 7))),
              round2(sumNonNull(CellColumn(rows, 8))),
              round2(sumNonNull(CellColumn(rows, 9))),
              round2(sumNonNull(CellColumn(rows, 10))),
              round2(sumNonNull(CellColumn(rows, 11))),
              round2(mean(CellColumn(rows, 12))),
              round2(mean(CellColumn(rows, 13))),
              Plain(max(CellColumn(rows, 14))),
              round2(max(CellColumn(rows, 15))),
              round2(min(CellColumn(rows, 16))),
              round2(max(CellColumn(rows, 17))),
              Null, Null, Null, Null, Null, Null, Null, Null, Null, Null,
              Null>>
    IN  [rows |-> rows, annualRow |-> annualRow]

----------------------------------------------------------------------------
(* The two window builders on one history of monthly aggregates *)

MaxRecs == 2

\* One persisted monthly aggregate as (year, month, temperature-like value,
\* precipitation-like value): read by generate30YearClimatologyTabs into a
\* YearMonthAgg and by readMonthlyAggregates into a MonthlyAggRecord.
ClimoInputs ==
    {<<y, m, t, p>> : y \in {1990, 1991, 2021}, m \in {3, 7},
                      t \in {Null, Num(30000)},
                      p \in {Null, Num(50000), Num(80000)}}

YearMonthAgg(i) ==
    [year |-> i[1], monthIdx |-> i[2],
     tmax |-> i[3], tmin |-> i[3], tmean |-> i[3], dew |-> Null, rh |-> Null,
     rain |-> i[4], rainyDays |-> Null, snowfall |-> i[4],
     snowyDays |-> Null, precip |-> i[4], wetDays |-> Null,
     sunshine |-> i[3], sunshinePct |-> Null, validDays |-> Count(28)]

DatedPair(v, i) ==
    IF v = Null THEN NullPair ELSE RecordPair(v, <<1, i[2], i[1]>>)

MonthlyAggRecord(i) ==
    [year |-> i[1], monthName |-> MonthNames[i[2]], monthIndex |-> i[2],
     meanTmax |-> i[3], meanTmin |-> i[3], meanTemp |-> i[3],
     meanDewPoint |-> Null, meanRh |-> Null,
     totalRain |-> i[4], rainyDays |-> Null, totalSnow |-> i[4],
     snowyDays |-> Null, totalPrecip |-> i[4], wetDays |-> Null,
     totalSunshineHours |-> i[3], percentPossibleSunshineFrac |-> Null,
     validDays |-> Count(28),
     recordHighTmax |-> DatedPair(i[3], i),
     recordLowTmin |-> DatedPair(i[3], i),
     recordMax24hRain |-> DatedPair(i[4], i),
     recordMax24hSnow |-> DatedPair(i[4], i),
     recordMax24hPrecip |-> DatedPair(i[4], i)]

\* (startYear, endYear) of the requested window
ClimoWindows == {<<1990, 2020>>, <<2020, 1990>>}

InitClimo ==
    /\ cInput \in SeqsUpTo(ClimoInputs, MaxRecs)
    /\ cWindow \in ClimoWindows
    /\ cWin = <<>>
    /\ cAgg = <<>>
    /\ cPc = {}
    /\ MergeIdle
    /\ AggIdle
    /\ RunIdle
    /\ WinIdle
    /\ NumIdle
    /\ ConIdle

CallComputeWindowClimo ==
    /\ "window" \notin cPc
    /\ cWin' = computeWindowClimo(
                   [k \in DOMAIN cInput |-> YearMonthAgg(cInput[k])],
                   cWindow[1], cWindow[2], <<>>)
    /\ cPc' = cPc \cup {"window"}
    /\ UNCHANGED <<cInput, cWindow, cAgg, mergeVars, aggVars, runVars,
                   winVars, numVars, conVars>>

CallComputeClimatologyFromMonthlyAggregates ==
    /\ "aggregates" \notin cPc
    /\ cAgg' = computeClimatologyFromMonthlyAggregates(
                   [k \in DOMAIN cInput |-> MonthlyAggRecord(cInput[k])],
                   cWindow[1], cWindow[2])
    /\ cPc' = cPc \cup {"aggregates"}
    /\ UNCHANGED <<cInput, cWindow, cWin, mergeVars, aggVars, runVars,
                   winVars, numVars, conVars>>

NextClimo ==
    \/ CallComputeWindowClimo
    \/ CallComputeClimatologyFromMonthlyAggregates

SpecClimo == InitClimo /\ [][NextClimo]_vars

----------------------------------------------------------------------------
(* Claims about the window rows *)

WindowDone == "window" \in cPc

FromAggDone == "aggregates" \in cPc

\* the inputs of month m inside the requested window
InputsOf(m) ==
    SelectSeq(cInput, LAMBDA i : i[2] = m /\ i[1] >= cWindow[1]
                                           /\ i[1] <= cWindow[2])

\* the years of month m whose precipitation total is the given total
YearsWithTotal(m, total) ==
    {InputsOf(m)[k][1] : k \in {j \in DOMAIN InputsOf(m) :
                                    InputsOf(m)[j][4] = total}}

\* the wettest-year cell is the earliest year of the window whose total is
\* the wettest total cell, and is null when that cell is null
WettestYearOk(row, m) ==
    LET total == cell(row, 17)
        year == cell(row, 18)
    IN  IF total = Null THEN year = Null
        ELSE /\ year # Null
             /\ NumOf(year) \in YearsWithTotal(m, total)
             /\ \A y \in YearsWithTotal(m, total) : NumOf(year) <= y

\* C15: in every window month row the wettest-total year is a year of the
\* window with that total, the earliest one on a tie, for computeWindowClimo
\* and for computeClimatologyFromMonthlyAggregates.
C15_WettestYearEarliest ==
    /\ WindowDone => \A m \in 1..12 : WettestYearOk(cWin.climoRows[m], m)
    /\ FromAggDone => \A m \in 1..12 : WettestYearOk(cAgg.rows[m], m)

\* computeWindowClimo's half of C15, which the code does satisfy
WindowClimoWettestYearEarliest ==
    WindowDone => \A m \in 1..12 : WettestYearOk(cWin.climoRows[m], m)

TotalColumns == {6, 7, 8, 9, 10, 11, 12}

IntensityColumns == {1, 2, 3, 4, 5, 13}

\* the annual cell of column c derived from the twelve month rows
AnnualCellOk(rows, annualRow, c) ==
    LET vals == finite(CellColumn(rows, c))
    IN  cell(annualRow, c) =
            IF vals = <<>> THEN Null
            ELSE IF c \in TotalColumns THEN round2(Rat(SumSeq(vals), 1))
            ELSE round2(Rat(SumSeq(vals), Len(vals)))

\* C18: every total-type column of the annual row is the sum, and every
\* intensity-type column the mean, of the non-null cells of the twelve month
\* rows; a column null in all month rows is null in the annual row.
C18_AnnualFromMonthRows ==
    /\ WindowDone =>
         \A c \in TotalColumns \cup IntensityColumns :
            AnnualCellOk(cWin.climoRows, cWin.annualRow, c)
    /\ FromAggDone =>
         \A c \in TotalColumns \cup IntensityColumns :
            AnnualCellOk(cAgg.rows, cAgg.annualRow, c)

\* C18 without the sunshine-hours column, which the code does satisfy
AnnualFromMonthRowsButSunshine ==
    /\ WindowDone =>
         \A c \in (TotalColumns \cup IntensityColumns) \ {12} :
            AnnualCellOk(cWin.climoRows, cWin.annualRow, c)
    /\ FromAggDone =>
         \A c \in (TotalColumns \cup IntensityColumns) \ {12} :
            AnnualCellOk(cAgg.rows, cAgg.annualRow, c)

NoneInWindow ==
    \A k \in DOMAIN cInput :
        ~(cInput[k][1] >= cWindow[1] /\ cInput[k][1] <= cWindow[2])

\* C19: when no monthly aggregate falls inside the requested window, both
\* builders return zero month rows.
C19_EmptyWindowNoRows ==
    NoneInWindow =>
        /\ WindowDone => Len(cWin.climoRows) = 0
        /\ FromAggDone => Len(cAgg.rows) = 0

----------------------------------------------------------------------------
(* Claims about the persisted Monthly Aggregates *)

KeyOfRow(row) == monthlyAggKey(row.year, row.month)

C17_OverwrittenOnRebuild ==
    runs > 0 =>
        \A k \in DOMAIN lastRun.monthlyRows :
            \E i \in DOMAIN monthlyAggSheet :
                monthlyAggSheet[i] = lastRun.monthlyRows[k]

----------------------------------------------------------------------------
(* Percent Normalizer *)

\* A text cell is <<0, 0, 0, 0, 0, chars>>, chars being its characters; the
\* empty text is EmptyString.
Text(chars) == <<0, 0, 0, 0, 0, chars>>

IsText(x) == Len(x) \in {4, 6}

charsOf(x) == IF x = EmptyString THEN <<>> ELSE x[6]

Digits == <<"0", "1", "2", "3", "4", "5", "6", "7", "8", "9">>

IsDigit(c) == \E d \in DOMAIN Digits : Digits[d] = c

DigitOf(c) == (CHOOSE d \in DOMAIN Digits : Digits[d] = c) - 1

\* String.prototype.trim
RECURSIVE trim(_)
trim(s) ==
    IF s = <<>> THEN s
    ELSE IF Head(s) = " " THEN trim(Tail(s))
    ELSE IF s[Len(s)] = " " THEN trim(SubSeq(s, 1, Len(s) - 1))
    ELSE s

\* s.replace(/,/g, "")
dropCommas(s) == SelectSeq(s, LAMBDA c : c # ",")

RECURSIVE DigitsValue(_)
DigitsValue(s) ==
    IF s = <<>> THEN 0
    ELSE 10 * DigitsValue(SubSeq(s, 1, Len(s) - 1)) + DigitOf(s[Len(s)])

\* Number(s) of a text, for unsigned decimal numerals of at most three
\* decimals: white space around the numeral is ignored, the empty text is 0,
\* and any other text is NaN.
Number(s) ==
    LET t == trim(s)
        dots == {i \in DOMAIN t : t[i] = "."}
        dot == IF dots = {} THEN Len(t) + 1 ELSE CHOOSE i \in dots : TRUE
        int == SubSeq(t, 1, dot - 1)
        frac == SubSeq(t, dot + 1, Len(t))
        pad == frac \o [i \in 1..(3 - Len(frac)) |-> "0"]
    IN  IF t = <<>> THEN Num(0)
        ELSE IF /\ Cardinality(dots) <= 1
                /\ \A i \in DOMAIN t : i # dot => IsDigit(t[i])
                /\ Len(int) + Len(frac) > 0
                /\ Len(frac) <= 3
             THEN Num(1000 * DigitsValue(int) + DigitsValue(pad))
        ELSE NotANumber

\* n > 1 && n <= 100 ? n / 100 : n
percentOrFraction(n) ==
    IF NumOf(n) > 1000 /\ NumOf(n) <= 100000 THEN Rat(NumOf(n), 100)
    ELSE Rat(NumOf(n), 1)

endsWithPercent(s) == s # <<>> /\ s[Len(s)] = "%"

\* s.slice(0, -1)
sliceLast(s) == SubSeq(s, 1, Len(s) - 1)

parsePercent(x) ==
    IF x = Null THEN Null
    ELSE IF IsText(x)
         THEN LET s == trim(charsOf(x))
              IN  IF endsWithPercent(s)
                  THEN LET n == Number(dropCommas(sliceLast(s)))
                       IN  IF IsNum(n) THEN Rat(NumOf(n), 100) ELSE Null
                  ELSE LET n == Number(dropCommas(s))
                       IN  IF IsNum(n) THEN percentOrFraction(n) ELSE Null
    ELSE LET n == asNum(x)
         IN  IF n = Null THEN Null ELSE percentOrFraction(n)

parsePercentToFrac(x) ==
    IF x = Null THEN Null
    ELSE IF IsNum(x) THEN percentOrFraction(x)
    ELSE LET s == trim(charsOf(x))
         IN  IF s = <<>> THEN Null
             ELSE IF endsWithPercent(s)
                  THEN LET raw == Number(dropCommas(sliceLast(s)))
                       IN  IF IsNum(raw) THEN Rat(NumOf(raw), 100) ELSE Null
             ELSE LET n == Number(dropCommas(s))
                  IN  IF ~IsNum(n) THEN Null ELSE percentOrFraction(n)

----------------------------------------------------------------------------
(* The numeric helpers and the Percent Normalizer on their own *)

MaxNums == 3

HelperNumbers == {Null, NotANumber, Double01, Double02, Double03}

PercentCells ==
    {Null, Num(0), Num(500), Num(1000), Num(84000), Num(100000), Num(150000),
     EmptyString, Text(<<" ">>), Text(<<"%">>), Text(<<"1", "2", "%">>),
     Text(<<" ", "1", "2", "%", " ">>), Text(<<"8", "4">>),
     Text(<<"0", ".", "5">>), Text(<<"1", "5", "0">>),
     Text(<<"1", ",", "2", "0", "0", "%">>), Text(<<"n", "/", "a">>),
     Text(<<"x", "%">>)}

InitNum ==
    /\ \/ nInput \in {[kind |-> "nums", nums |-> a, cell |-> Null] :
                         a \in SeqsUpTo(HelperNumbers, MaxNums)}
       \/ nInput \in {[kind |-> "cell", nums |-> <<>>, cell |-> c] :
                         c \in PercentCells}
    /\ nOut = <<>>
    /\ nPc = "off"
    /\ MergeIdle
    /\ AggIdle
    /\ RunIdle
    /\ WinIdle
    /\ ClimoIdle
    /\ ConIdle

CallHelper(kind, name, result) ==
    /\ nPc = "off"
    /\ nInput.kind = kind
    /\ nPc' = name
    /\ nOut' = result
    /\ UNCHANGED <<nInput, mergeVars, aggVars, runVars, winVars, climoVars,
                   conVars>>

CallMean == CallHelper("nums", "mean", mean(nInput.nums))

CallSum == CallHelper("nums", "sum", sum(nInput.nums))

CallMax == CallHelper("nums", "max", max(nInput.nums))

CallMin == CallHelper("nums", "min", min(nInput.nums))

CallParsePercent ==
    CallHelper("cell", "parsePercent", parsePercent(nInput.cell))

CallParsePercentToFrac ==
    CallHelper("cell", "parsePercentToFrac", parsePercentToFrac(nInput.cell))

NextNum ==
    \/ CallMean
    \/ CallSum
    \/ CallMax
    \/ CallMin
    \/ CallParsePercent
    \/ CallParsePercentToFrac

SpecNum == InitNum /\ [][NextNum]_vars

Helper(name, nums) ==
    CASE name = "mean" -> mean(nums)
      [] name = "sum" -> sum(nums)
      [] name = "max" -> max(nums)
      [] name = "min" -> min(nums)

HelperNames == {"mean", "sum", "max", "min"}

\* the helper called ignored the null and the non-finite entries, and
\* returned null when nothing was left
IgnoresNullAndNonFinite ==
    nPc \in HelperNames =>
        /\ nOut = Helper(nPc, finite(nInput.nums))
        /\ finite(nInput.nums) = <<>> => nOut = Null

\* the helper called returns the same for every permutation of its input
SameForEveryPermutation ==
    nPc \in HelperNames =>
        \A p \in PermutationsOf(nInput.nums) : Helper(nPc, p) = nOut

\* C21: mean, sum, min and max ignore null and non-finite entries, return
\* null for an empty or all-null input, and return the same result for every
\* permutation of the input.
C21_HelpersIgnoreNullAndOrder ==
    IgnoresNullAndNonFinite /\ SameForEveryPermutation

\* what holds of the code: null and non-finite entries are ignored by all
\* four, and max and min do not depend on the order
HelpersIgnoreNullMaxMinOrder ==
    /\ IgnoresNullAndNonFinite
    /\ nPc \in {"max", "min"} =>
           \A p \in PermutationsOf(nInput.nums) : Helper(nPc, p) = nOut

----------------------------------------------------------------------------
(* Claims about the Percent Normalizer *)

PercentCalls == {"parsePercent", "parsePercentToFrac"}

\* equality of a returned number and an expected one, both null or both the
\* same rational
SameNumber(a, b) ==
    IF a = Null \/ b = Null THEN a = b ELSE a.n * b.d = b.n * a.d

\* the text of a cell without its trailing '%'
NumeralPart(x) ==
    LET s == trim(charsOf(x))
    IN  trim(dropCommas(IF endsWithPercent(s) THEN sliceLast(s) ELSE s))

\* the cell is blank where its number should be
BlankNumeral(x) == IsText(x) /\ NumeralPart(x) = <<>>

\* the cell is a text that is no number
Unparseable(x) ==
    IsText(x) /\ (BlankNumeral(x) \/ ~IsNum(Number(NumeralPart(x))))

\* the fraction the rule gives for the number n, in thousandths
RuleOf(n) ==
    IF n > 1000 /\ n <= 100000 THEN Rat(n, 100) ELSE Rat(n, 1)

Normalized(x) ==
    IF x = Null \/ Unparseable(x) THEN Null
    ELSE IF IsNum(x) THEN RuleOf(NumOf(x))
    ELSE IF endsWithPercent(trim(charsOf(x)))
         THEN Rat(NumOf(Number(NumeralPart(x))), 100)
    ELSE RuleOf(NumOf(Number(NumeralPart(x))))

\* C22: the Percent Normalizer maps a number n to n/100 when 1 < n <= 100 and
\* to n otherwise, a text with a trailing '%' to its number divided by 100,
\* and null or unparseable input to null.
C22_PercentNormalized ==
    nPc \in PercentCalls => SameNumber(nOut, Normalized(nInput.cell))

\* what holds of the code: the same, for the cells that are not blank where
\* their number should be
PercentNormalizedUnlessBlank ==
    (nPc \in PercentCalls /\ ~BlankNumeral(nInput.cell)) =>
        SameNumber(nOut, Normalized(nInput.cell))

----------------------------------------------------------------------------
(* Claims about the records reduced from a bucket *)

\* the candidates of a bucket's list that may become the record
Eligible(recs, positive) ==
    {i \in DOMAIN recs : positive => NumOf(recs[i].value) > 0}

\* the candidates that share the extreme value; sign = 1 for a maximum, -1
\* for a minimum
SharingExtreme(recs, sign, positive) ==
    LET idx == Eligible(recs, positive)
    IN  {i \in idx : \A j \in idx :
            sign * NumOf(recs[i].value) >= sign * NumOf(recs[j].value)}

\* the record carries the earliest date of the candidates sharing the extreme
EarliestOfTies(pair, recs, sign, positive) ==
    LET ties == SharingExtreme(recs, sign, positive)
    IN  ties # {} =>
            \E i \in ties :
               /\ pair.date = fmtRecordDate(recs[i].isoDate)
               /\ \A j \in ties : ~IsoBefore(recs[j].isoDate, recs[i].isoDate)

\* C23: when several candidates of a bucket share the extreme value, the
\* record reduced from the bucket carries the earliest of their dates, in
\* whatever order the candidates were accumulated.
C23_TieTakesEarliestDate ==
    Tracked =>
      \A m \in 1..12 :
         /\ EarliestOfTies(aRecords[m].recHighTmax, BucketOf(m).tmax, 1, FALSE)
         /\ EarliestOfTies(aRecords[m].recLowTmin, BucketOf(m).tmin, -1, FALSE)
         /\ EarliestOfTies(aRecords[m].recMaxPrecip, BucketOf(m).precip, 1,
                           TRUE)
         /\ EarliestOfTies(aRecords[m].recMaxSnow, BucketOf(m).snow, 1, TRUE)

\* what holds of the code: the record carries the date of the first of the
\* candidates sharing the extreme, in the order of the bucket
FirstOfTies(pair, recs, sign, positive) ==
    LET ties == SharingExtreme(recs, sign, positive)
    IN  ties # {} =>
            \E i \in ties :
               /\ pair.date = fmtRecordDate(recs[i].isoDate)
               /\ \A j \in ties : i <= j

TieTakesFirstAccumulated ==
    Tracked =>
      \A m \in 1..12 :
         /\ FirstOfTies(aRecords[m].recHighTmax, BucketOf(m).tmax, 1, FALSE)
         /\ FirstOfTies(aRecords[m].recLowTmin, BucketOf(m).tmin, -1, FALSE)
         /\ FirstOfTies(aRecords[m].recMaxPrecip, BucketOf(m).precip, 1, TRUE)
         /\ FirstOfTies(aRecords[m].recMaxSnow, BucketOf(m).snow, 1, TRUE)

----------------------------------------------------------------------------
(* Claims about where the windows of buildWindows begin *)

\* the observed data begin a full step or more before the base year
DataWellBeforeBase(a) == a.minYear <= a.baseStartYear - a.stepYears

\* C24: with stepYears >= 1 no returned window starts before baseStartYear,
\* even when the observed data begin more than one step before it.
C24_NoWindowBeforeBase ==
    (wPc = "done" /\ wArgs.stepYears >= 1) =>
        \A i \in DOMAIN wOut : wOut[i].start >= wArgs.baseStartYear

\* C24 as the code has it: with stepYears >= 1 every returned window starts
\* at baseStartYear plus or minus a multiple of stepYears and not before
\* minYear; none starts before baseStartYear unless the observed data begin a
\* full step or more before the base year.
C24_NoWindowBeforeAlignedMinYear ==
    (wPc = "done" /\ wArgs.stepYears >= 1) =>
        \A i \in DOMAIN wOut :
           /\ wOut[i].start >= wArgs.minYear
           /\ (wOut[i].start - wArgs.baseStartYear) % wArgs.stepYears = 0
           /\ ~DataWellBeforeBase(wArgs) =>
                  wOut[i].start >= wArgs.baseStartYear

\* the data begin more than a step before the base year and the first window
\* returned starts before the base year, on the base year's grid
C24_Witness ==
    /\ wPc = "done"
    /\ wArgs.stepYears = 30
    /\ wArgs.minYear < wArgs.baseStartYear - wArgs.stepYears
    /\ wOut # <<>>
    /\ wOut[1].start = wArgs.baseStartYear - wArgs.stepYears

----------------------------------------------------------------------------
(* The Record Tracker fed in batches, as the year loop of POST feeds it: each *)
(* call passes the previous result as the accumulator                        *)

MaxBatchRows == 3

BatchRowSet ==
    {DailyRow(d, t, p, p) : d \in {<<2020, 3, 1>>, <<2021, 3, 1>>,
                                   <<2021, 7, 1>>},
                            t \in {Null, Num(30000)}, p \in {Num(4000)}}

InitBatch ==
    /\ aRows \in SeqsUpTo(BatchRowSet, MaxBatchRows)
    /\ aFed = <<>>
    /\ aBuilt = <<>>
    /\ aRecords = <<>>
    /\ aBuckets = <<>>
    /\ aPc = {}
    /\ MergeIdle
    /\ RunIdle
    /\ WinIdle
    /\ ClimoIdle
    /\ NumIdle
    /\ ConIdle

\* the number of rows the calls so far have been given
Fed == SumSeq([i \in DOMAIN aFed |-> Num(aFed[i])])

\* one call on the next n rows, a year's fetch; the year may have no rows
FeedBatch ==
    /\ Len(aFed) <= Len(aRows)
    /\ \E n \in 0..(Len(aRows) - Fed) :
          /\ aBuckets' = accumulateMonthlyDailyRecords(
                             SubSeq(aRows, Fed + 1, Fed + n), aBuckets)
          /\ aFed' = Append(aFed, n)
    /\ UNCHANGED <<aRows, aBuilt, aRecords, aPc, mergeVars, runVars, winVars,
                   climoVars, numVars, conVars>>

NextBatch == FeedBatch

SpecBatch == InitBatch /\ [][NextBatch]_vars

\* C25: after any sequence of batches fed through
\* accumulateMonthlyDailyRecords, each call passing the previous result as the
\* accumulator, every month's lists equal the lists one call on the
\* concatenation of the batches gives.
C25_BatchesConcatenate ==
    aFed # <<>> =>
        aBuckets = accumulateMonthlyDailyRecords(SubSeq(aRows, 1, Fed), <<>>)

\* two batches of one row each have been fed and a month holds a candidate
\* of each
C25_Witness ==
    /\ aFed = <<1, 1>>
    /\ \E m \in DOMAIN aBuckets :
          /\ Len(aBuckets[m].tmax) = 2
          /\ aBuckets[m].tmax[1].isoDate # aBuckets[m].tmax[2].isoDate

----------------------------------------------------------------------------
(* The values generateClimatologyMaster writes, whole rows, climatology.ts *)

\* typeof v === "number" ? (v > 1 ? v / 100 : v) : null for the cells the
\* rows hold (numbers and null); exact when v is a multiple of 0.1
normalizePercentCell(v) ==
    IF ~IsNum(v) THEN Null
    ELSE IF NumOf(v) > 1000 THEN Num(NumOf(v) \div 100)
    ELSE v

\* row[13] = normalizePercentCell(row[13])
withPercentNormalized(row) ==
    [i \in DOMAIN row |-> IF i = 14 THEN normalizePercentCell(row[i])
                          ELSE row[i]]

masterMonthRow_snowBeforePrecip(records, m, merged) ==
    SubSeq(climoMonthRow(records, m, 0, 0, <<>>), 1, 19)
    \o <<OrNull(merged.recHighTmax.value), OrNull(merged.recHighTmax.date),
         OrNull(merged.recLowTmin.value), OrNull(merged.recLowTmin.date),
         OrNull(merged.recMaxSnow.value), OrNull(merged.recMaxSnow.date),
         OrNull(merged.recMaxPrecip.value), OrNull(merged.recMaxPrecip.date)>>

\* climoRows.push([...]) of generateClimatologyMaster: the statistics of the
\* month over every year, by the expressions of computeWindowClimo, then the
\* merged records
masterMonthRow(records, m, merged) ==
    SubSeq(climoMonthRow(records, m, 0, 0, <<>>), 1, 19)
    \o <<OrNull(merged.recHighTmax.value), OrNull(merged.recHighTmax.date),
         OrNull(merged.recLowTmin.value), OrNull(merged.recLowTmin.date),
         OrNull(merged.recMaxPrecip.value), OrNull(merged.recMaxPrecip.date),
         OrNull(merged.recMaxSnow.value), OrNull(merged.recMaxSnow.date)>>

\* the merged records of month m
mergedRecordsOf(existingRecordMap, monthlyDailyRecords, m) ==
    mergeMonthlyRecordsStrict(
        IF m \in DOMAIN existingRecordMap THEN existingRecordMap[m] ELSE Null,
        getMonthlyRecordBundle(monthlyDailyRecords, m, Null, Null))

\* values from its fourth row on: the twelve month rows and the annual row
masterValues(records, existingRecordMap, monthlyDailyRecords) ==
    LET climoRows ==
            [m \in 1..12 |->
                masterMonthRow(records, m,
                               mergedRecordsOf(existingRecordMap,
                                               monthlyDailyRecords, m))]
        rows == climoRows \o <<annualRowOf(climoRows)>>
    IN  [k \in DOMAIN rows |-> withPercentNormalized(rows[k])]

\* what the range A4:AA15 holds of a written row for readExistingClimoRecords:
\* row[0] and row[19..26]
storedRow(row) == [label |-> row[1], cells |-> SubSeq(row, 20, 27)]

----------------------------------------------------------------------------
(* computeWindowClimo and generateClimatologyMaster on one history of       *)
(* monthly aggregates and one set of daily rows                             *)

MaxHistory == 2

LayoutInputs ==
    {<<1990, 3, Num(30000), Num(50000)>>, <<1991, 3, Null, Num(80000)>>,
     <<1991, 7, Num(30000), Null>>, <<2021, 7, Num(30000), Num(50000)>>}

LayoutDailyRows ==
    {DailyRow(<<1990, 3, 1>>, Num(30000), Num(4000), Num(4000)),
     DailyRow(<<1991, 3, 1>>, Num(-5000), Num(0), Num(0)),
     DailyRow(<<2021, 7, 1>>, Num(28000), Num(50000), Null)}

\* the Climatology Master before the call: never written, or written by a
\* run that saw one day
LayoutSheets ==
    {<<>>} \cup {generateClimatologyMaster(
                     <<>>, accumulateMonthlyDailyRecords(<<r>>, <<>>)) :
                        r \in LayoutDailyRows}

InitLayout ==
    /\ nInput \in [kind : {"rows"},
                   history : SeqsUpTo(LayoutInputs, MaxHistory),
                   daily : SeqsUpTo(LayoutDailyRows, 2),
                   window : ClimoWindows,
                   sheet : LayoutSheets]
    /\ nOut = <<>>
    /\ nPc = "off"
    /\ MergeIdle
    /\ AggIdle
    /\ RunIdle
    /\ WinIdle
    /\ ClimoIdle
    /\ ConIdle

LayoutHistory ==
    [k \in DOMAIN nInput.history |-> YearMonthAgg(nInput.history[k])]

LayoutDaily == accumulateMonthlyDailyRecords(nInput.daily, <<>>)

CallComputeWindowClimoWithRecords ==
    CallHelper("rows", "computeWindowClimo",
               computeWindowClimo(LayoutHistory, nInput.window[1],
                                  nInput.window[2], LayoutDaily))

CallGenerateClimatologyMaster ==
    CallHelper("rows", "generateClimatologyMaster",
               masterValues(LayoutHistory,
                            readExistingClimoRecords(nInput.sheet),
                            LayoutDaily))

NextLayout ==
    \/ CallComputeWindowClimoWithRecords
    \/ CallGenerateClimatologyMaster

SpecLayout == InitLayout /\ [][NextLayout]_vars

----------------------------------------------------------------------------
(* Claims about the layout of the rows *)

\* the cells of a record bundle in the order high tmax, low tmin, max 24h
\* precipitation, max 24h snow
RecordCells(b) ==
    <<OrNull(b.recHighTmax.value), OrNull(b.recHighTmax.date),
      OrNull(b.recLowTmin.value), OrNull(b.recLowTmin.date),
      OrNull(b.recMaxPrecip.value), OrNull(b.recMaxPrecip.date),
      OrNull(b.recMaxSnow.value), OrNull(b.recMaxSnow.date)>>

\* twelve month rows January..December and an annual row of 27 columns each,
\* the annual row's record columns null
TwelveMonthsAndAnnual(monthRows, annual) ==
    /\ Len(monthRows) = 12
    /\ \A m \in 1..12 : /\ Len(monthRows[m]) = 27
                        /\ cell(monthRows[m], 0) = MonthNames[m]
    /\ Len(annual) = 27
    /\ monthIndexFromName(cell(annual, 0)) = 0
    /\ \A c \in 19..26 : cell(annual, c) = Null

----------------------------------------------------------------------------
(* Two requests on the same spreadsheet, step by step: every await of POST  *)
(* and of generateClimatologyMaster that reads or writes the two sheets is   *)
(* a step of its own, and a call of the Sheets API may throw.               *)

ConRuns == {1, 2}

\* what a request fetches for its year, 2020
ConRowSet ==
    {DailyRow(<<2020, 3, 1>>, Num(30000), Num(50000), Null),
     DailyRow(<<2020, 3, 2>>, Num(-5000), Num(0), Null),
     DailyRow(<<2020, 7, 1>>, Num(28000), Num(4000), Num(2000))}

\* the Climatology Master before the two requests: never written, or written
\* by an earlier request
ConSheets ==
    {<<>>} \cup {generateClimatologyMaster(
                     <<>>, accumulateMonthlyDailyRecords(<<r>>, <<>>)) :
                        r \in ConRowSet}

RunState(fetched) ==
    [pc |-> "start", fetched |-> fetched, keys |-> {}, records |-> <<>>,
     rows |-> <<>>, failedAt |-> "none"]

InitCon ==
    /\ kAgg = <<>>
    /\ kMaster \in ConSheets
    /\ kBefore = kMaster
    /\ kRun \in [ConRuns -> {RunState(<<r>>) : r \in ConRowSet}]
    /\ MergeIdle
    /\ AggIdle
    /\ RunIdle
    /\ WinIdle
    /\ ClimoIdle
    /\ NumIdle

Step(r, from, to) ==
    /\ kRun[r].pc = from
    /\ kRun' = [kRun EXCEPT ![r].pc = to]

\* const existingMonthlyAggKeys = await getMonthlyAggExistingKeys(...)
ReadExistingKeys(r) ==
    /\ kRun[r].pc = "start"
    /\ kRun' = [kRun EXCEPT ![r].pc = "keys",
                            ![r].keys = getMonthlyAggExistingKeys(kAgg)]
    /\ UNCHANGED <<kAgg, kMaster, kBefore, mergeVars, aggVars, runVars,
                   winVars, climoVars, numVars>>

\* the year loop: build, filter against the keys read, append, accumulate
AppendYear(r) ==
    /\ kRun[r].pc = "keys"
    /\ LET rawRows == kRun[r].fetched
           monthlyRows == buildMonthlyAggregates(2020, rawRows)
           rowsToAppend ==
               filterOutExistingMonthlyAgg(monthlyRows, kRun[r].keys)
       IN  /\ kAgg' = kAgg \o rowsToAppend
           /\ kRun' = [kRun EXCEPT
                  ![r].pc = "appended",
                  ![r].keys = kRun[r].keys \cup
                      {monthlyAggKey(rowsToAppend[j].year,
                                     rowsToAppend[j].month) :
                           j \in DOMAIN rowsToAppend},
                  ![r].records = accumulateMonthlyDailyRecords(rawRows, <<>>)]
    /\ UNCHANGED <<kMaster, kBefore, mergeVars, aggVars, runVars, winVars,
                   climoVars, numVars>>

\* generateClimatologyMaster: readExistingClimoRecords, then the rows
ReadExistingRecords(r) ==
    /\ kRun[r].pc = "appended"
    /\ kRun' = [kRun EXCEPT
           ![r].pc = "read",
           ![r].rows = climoMasterRows(readExistingClimoRecords(kMaster),
                                       kRun[r].records)]
    /\ UNCHANGED <<kAgg, kMaster, kBefore, mergeVars, aggVars, runVars,
                   winVars, climoVars, numVars>>

\* await sheets.spreadsheets.values.clear(A:AA)
ClearMaster(r) ==
    /\ Step(r, "read", "cleared")
    /\ kMaster' = <<>>
    /\ UNCHANGED <<kAgg, kBefore, mergeVars, aggVars, runVars, winVars,
                   climoVars, numVars>>

\* await sheets.spreadsheets.values.update(A1, values)
WriteMaster(r) ==
    /\ Step(r, "cleared", "written")
    /\ kMaster' = kRun[r].rows
    /\ UNCHANGED <<kAgg, kBefore, mergeVars, aggVars, runVars, winVars,
                   climoVars, numVars>>

\* await sheets.spreadsheets.batchUpdate(formats)
FormatMaster(r) ==
    /\ Step(r, "written", "done")
    /\ UNCHANGED <<kAgg, kMaster, kBefore, mergeVars, aggVars, runVars,
                   winVars, climoVars, numVars>>

\* the next call of generateClimatologyMaster throws: POST catches the error
\* and answers with it
FailMaster(r) ==
    /\ kRun[r].pc \in {"appended", "read", "cleared", "written"}
    /\ kRun' = [kRun EXCEPT ![r].pc = "failed",
                            ![r].failedAt = kRun[r].pc]
    /\ UNCHANGED <<kAgg, kMaster, kBefore, mergeVars, aggVars, runVars,
                   winVars, climoVars, numVars>>

NextCon ==
    \E r \in ConRuns :
        \/ ReadExistingKeys(r)
        \/ AppendYear(r)
        \/ ReadExistingRecords(r)
        \/ ClearMaster(r)
        \/ WriteMaster(r)
        \/ FormatMaster(r)
        \/ FailMaster(r)

SpecCon == InitCon /\ [][NextCon]_vars

----------------------------------------------------------------------------
(* Claims about interleaved and failing requests *)

BothDone == kRun # <<>> /\ \A r \in ConRuns : kRun[r].pc = "done"

\* C27: when two ingestion runs interleave their steps, the Monthly
\* Aggregates sheet still ends with at most one row per (year, month-name)
\* key.
C27_InterleavedOneRowPerKey ==
    BothDone =>
        \A i, j \in DOMAIN kAgg :
            KeyOfRow(kAgg[i]) = KeyOfRow(kAgg[j]) => i = j

NotWorse(before, after) ==
    \A m \in 1..12 :
        /\ NeverBelow(PersistedValue(before, m, 1),
                      PersistedValue(after, m, 1))
        /\ NeverAbove(PersistedValue(before, m, 3),
                      PersistedValue(after, m, 3))
        /\ NeverBelow(PersistedValue(before, m, 5),
                      PersistedValue(after, m, 5))
        /\ NeverBelow(PersistedValue(before, m, 7),
                      PersistedValue(after, m, 7))

\* C28: when two runs of generateClimatologyMaster interleave their steps,
\* the record finally persisted for a month is never worse than the record
\* persisted before both runs started.
C28_InterleavedNeverWorse == BothDone => NotWorse(kBefore, kMaster)

\* what holds of the code: a request that runs alone to its end leaves no
\* record worse
AloneNeverWorse ==
    (kRun # <<>> /\ \E r \in ConRuns :
        /\ kRun[r].pc = "done"
        /\ \A q \in ConRuns \ {r} : kRun[q].pc = "start")
    => NotWorse(kBefore, kMaster)

\* a run has failed and no other run has taken a step
FailedAlone(r) ==
    /\ kRun[r].pc = "failed"
    /\ \A q \in ConRuns \ {r} : kRun[q].pc = "start"

SameRecords(before, after) ==
    \A m \in 1..12 : \A col \in 1..8 :
        PersistedValue(before, m, col) = PersistedValue(after, m, col)

\* C29: if a run of generateClimatologyMaster fails at any step, the
\* persisted Climatology Master records are left as they were before the run.
C29_FailureLeavesRecords ==
    kRun # <<>> =>
        \A r \in ConRuns : FailedAlone(r) => SameRecords(kBefore, kMaster)

\* what holds of the code: a failure before the sheet is cleared leaves the
\* records as they were
FailureBeforeClearLeavesRecords ==
    kRun # <<>> =>
        \A r \in ConRuns :
            (FailedAlone(r) /\ kRun[r].failedAt \in {"appended", "read"})
                => SameRecords(kBefore, kMaster)

----------------------------------------------------------------------------
(* Claims about the persisted records against everything the runs supplied *)

\* the values of one variable the runs so far have supplied for month m: the
\* non-null values of the days of that month
Supplied(m, f, positive) ==
    {NumOf(r[f]) : r \in {q \in fetchedRows :
                             /\ isValidIso(q.iso)
                             /\ q.iso[2] = m
                             /\ q[f] # Null
                             /\ positive => NumOf(q[f]) > 0}}

\* the extreme of a set of values, null when the set is empty; sign = 1 for
\* the maximum, -1 for the minimum
ExtremeOf(S, sign) ==
    IF S = {} THEN Null
    ELSE Num(CHOOSE v \in S : \A w \in S : sign * v >= sign * w)

\* C30: from a Climatology Master with no records, after any sequence of
\* sequential runs each month's persisted record value is the extreme over
\* all candidates of all runs so far: the maximum tmax, the minimum tmin, the
\* maximum strictly positive precipitation and snowfall, null if there is no
\* eligible candidate; the order of the runs does not matter.
C30_PersistedIsExtremeOfAll ==
    runs > 0 =>
        \A m \in 1..12 :
           /\ PersistedValue(climoMaster, m, 1)
                 = ExtremeOf(Supplied(m, "tmax", FALSE), 1)
           /\ PersistedValue(climoMaster, m, 3)
                 = ExtremeOf(Supplied(m, "tmin", FALSE), -1)
           /\ PersistedValue(climoMaster, m, 5)
                 = ExtremeOf(Supplied(m, "precip", TRUE), 1)
           /\ PersistedValue(climoMaster, m, 7)
                 = ExtremeOf(Supplied(m, "snowfall", TRUE), 1)

\* no run has supplied a day without a temperature
AllTemperaturesPresent ==
    \A r \in fetchedRows : r.tmax # Null /\ r.tmin # Null

\* what holds of the code: the same after the first run, as long as every
\* day supplied has its temperatures
FirstRunPersistsExtremeOfPresent ==
    (runs = 1 /\ AllTemperaturesPresent) => C30_PersistedIsExtremeOfAll

====
